---- MODULE Spec2Model ----
(***************************************************************************)
(* Model of compare_gan/src/eval_gan_lib.py: the checkpoint sweep          *)
(* RunTaskEval, the per-checkpoint evaluation RunCheckpointEval, the       *)
(* EvalTask hooks and the persistent score table (scores.csv).             *)
(*                                                                         *)
(* The score table is a sequence of CSV records; the first record is what  *)
(* csv.DictReader takes as the field names.  Rows written with             *)
(* csv.writer sit in the write buffer of the open file until f.flush().    *)
(* Floating point metric values are fixed-point integers counted in        *)
(* thousandths, so that "%.3f" is a real conversion to text.               *)
(***************************************************************************)
EXTENDS Integers, Sequences, FiniteSets, TLC

\* ------------------------------------------------------------------ bounds
\* number of checkpoints reported by the checkpoint state
NumCheckpoints == 2
\* number of RunTaskEval invocations explored
MaxRuns == 3
\* number of generator batches needed to cover the test set
NumBatches == 2

\* --------------------------------------------------------- program constants
\* NAN_DETECTED = 31337.0
NAN_DETECTED == 31337
\* default_value = -1.0
DEFAULT_METRIC == -1
\* "%.3f": three decimals, values are counted in 1/1000
Milli == 1000
\* options.get("tf_seed", -1), options.get("sample_id", -1)
DEFAULT_SEED == -1

\* consts.GAN_WITH_PENALTY
GAN_WITH_PENALTY == "GAN_PENALTY"

\* consts.MODELS_WITH_PENALTIES
MODELS_WITH_PENALTIES == {"GAN_PENALTY", "WGAN_PENALTY", "LSGAN_PENALTY"}

SUPPORTED_GANS ==
  {"GAN", "GAN_MINMAX", "WGAN", "WGAN_GP", "DRAGAN", "LSGAN", "VAE", "BEGAN"}
    \cup MODELS_WITH_PENALTIES

\* the table without its "lambda" entry
DEFAULT_VALUES_partial ==
  [ weight_clipping |-> "-1.0", y_dim |-> "-1",
    disc_iters |-> "-1", beta1 |-> "-1.0", beta2 |-> "-1.0",
    gamma |-> "-1.0", penalty_type |-> "none",
    discriminator_spectralnorm |-> "False", architecture |-> "unknown" ]

\* str() of the DEFAULT_VALUES entries
DEFAULT_VALUES ==
  [ weight_clipping |-> "-1.0", y_dim |-> "-1", lambda |-> "-1.0",
    disc_iters |-> "-1", beta1 |-> "-1.0", beta2 |-> "-1.0",
    gamma |-> "-1.0", penalty_type |-> "none",
    discriminator_spectralnorm |-> "False", architecture |-> "unknown" ]

\* the key csv.DictReader files surplus fields under (restkey = None)
NoneKey == "<None>"

\* -------------------------------------------------------------- text order
\* code points of the column names that the program sorts
Chars ==
    "inception_score" :> <<105, 110, 99, 101, 112, 116, 105, 111, 110, 95, 115, 99, 111, 114, 101>> @@
    "fid_score" :> <<102, 105, 100, 95, 115, 99, 111, 114, 101>> @@
    "ms_ssim" :> <<109, 115, 95, 115, 115, 105, 109>> @@
    "train_accuracy" :> <<116, 114, 97, 105, 110, 95, 97, 99, 99, 117, 114, 97, 99, 121>> @@
    "test_accuracy" :> <<116, 101, 115, 116, 95, 97, 99, 99, 117, 114, 97, 99, 121>> @@
    "fake_accuracy" :> <<102, 97, 107, 101, 95, 97, 99, 99, 117, 114, 97, 99, 121>> @@
    "train_d_loss" :> <<116, 114, 97, 105, 110, 95, 100, 95, 108, 111, 115, 115>> @@
    "test_d_loss" :> <<116, 101, 115, 116, 95, 100, 95, 108, 111, 115, 115>> @@
    "fractal_dimension" :> <<102, 114, 97, 99, 116, 97, 108, 95, 100, 105, 109, 101, 110, 115, 105, 111, 110>> @@
    "kid_score" :> <<107, 105, 100, 95, 115, 99, 111, 114, 101>> @@
    "log_condition_number_count" :> <<108, 111, 103, 95, 99, 111, 110, 100, 105, 116, 105, 111, 110, 95, 110, 117, 109, 98, 101, 114, 95, 99, 111, 117, 110, 116>> @@
    "log_condition_number_mean" :> <<108, 111, 103, 95, 99, 111, 110, 100, 105, 116, 105, 111, 110, 95, 110, 117, 109, 98, 101, 114, 95, 109, 101, 97, 110>> @@
    "log_condition_number_std" :> <<108, 111, 103, 95, 99, 111, 110, 100, 105, 116, 105, 111, 110, 95, 110, 117, 109, 98, 101, 114, 95, 115, 116, 100>> @@
    "gilbo" :> <<103, 105, 108, 98, 111>> @@
    "gilbo_train_consistency" :> <<103, 105, 108, 98, 111, 95, 116, 114, 97, 105, 110, 95, 99, 111, 110, 115, 105, 115, 116, 101, 110, 99, 121>> @@
    "gilbo_eval_consistency" :> <<103, 105, 108, 98, 111, 95, 101, 118, 97, 108, 95, 99, 111, 110, 115, 105, 115, 116, 101, 110, 99, 121>> @@
    "gilbo_self_consistency" :> <<103, 105, 108, 98, 111, 95, 115, 101, 108, 102, 95, 99, 111, 110, 115, 105, 115, 116, 101, 110, 99, 121>> @@
    "architecture" :> <<97, 114, 99, 104, 105, 116, 101, 99, 116, 117, 114, 101>> @@
    "beta1" :> <<98, 101, 116, 97, 49>> @@
    "lambda" :> <<108, 97, 109, 98, 100, 97>>

RECURSIVE SeqLess(_, _)
\* lexicographic order of two code point sequences (Python str "<")
SeqLess(a, b) ==
  IF a = << >> THEN b # << >>
  ELSE IF b = << >> THEN FALSE
  ELSE IF a[1] # b[1] THEN a[1] < b[1]
  ELSE SeqLess(Tail(a), Tail(b))

\* Python "<" on every pair of column names
LessTable ==
  [x \in DOMAIN Chars |-> [y \in DOMAIN Chars |-> SeqLess(Chars[x], Chars[y])]]

\* Python "<" on two column names
StrLess(x, y) == LessTable[x][y]

RECURSIVE sorted(_)
\* Python sorted() applied to a set of names: ascending list
sorted(S) ==
  IF S = {} THEN << >>
  ELSE LET m == CHOOSE x \in S : \A y \in S \ {x} : StrLess(x, y)
       IN  <<m>> \o sorted(S \ {m})

Range(s) == {s[j] : j \in 1..Len(s)}

RECURSIVE Flatten(_)
\* list.extend applied along a list of lists
Flatten(ss) == IF ss = << >> THEN << >> ELSE Head(ss) \o Flatten(Tail(ss))

\* ------------------------------------------------------------------- tasks
tasks_to_run ==
  << "InceptionScoreTask", "FIDScoreTask", "MultiscaleSSIMTask",
     "ComputeAccuracyTask", "FractalDimensionTask", "KIDScoreTask",
     "GeneratorConditionNumberTask", "GILBOTask" >>

MetricsList(task) ==
  CASE task = "InceptionScoreTask" -> {"inception_score"}
    [] task = "FIDScoreTask" -> {"fid_score"}
    [] task = "KIDScoreTask" -> {"kid_score"}
    [] task = "MultiscaleSSIMTask" -> {"ms_ssim"}
    [] task = "ComputeAccuracyTask" ->
         {"train_accuracy", "test_accuracy", "fake_accuracy",
          "train_d_loss", "test_d_loss"}
    [] task = "FractalDimensionTask" -> {"fractal_dimension"}
    [] task = "GILBOTask" ->
         {"gilbo", "gilbo_train_consistency", "gilbo_eval_consistency",
          "gilbo_self_consistency"}
    [] task = "GeneratorConditionNumberTask" ->
         {"log_condition_number_count", "log_condition_number_mean",
          "log_condition_number_std"}

\* dict.get(key, default)
Get(d, key, default) == IF key \in DOMAIN d THEN d[key] ELSE default

\* the empty dict
EmptyDict == [k \in {} |-> 0]

\* a dict holding value v under every key of K
DictOf(K, v) == [k \in K |-> v]

\* dict.update
Update(d, e) ==
  [k \in (DOMAIN d) \cup (DOMAIN e) |-> IF k \in DOMAIN e THEN e[k] ELSE d[k]]

ShouldRunAccuracyLossTrainVsTest(options) ==
  options["gan_type"] = GAN_WITH_PENALTY

ShouldRunMultiscaleSSIM(options) ==
  options["dataset"] \in {"celeba", "celebahq128"}

\* keys written by ComputeAccuracyLoss into its result_dict
ComputeAccuracyLoss ==
  {"train_accuracy", "test_accuracy", "fake_accuracy",
   "train_d_loss", "test_d_loss"}

\* ComputeAccuracyTask reporting under a key it does not declare
RunInSessionLeaky(task, options) ==
  IF task = "ComputeAccuracyTask" /\ ShouldRunAccuracyLossTrainVsTest(options)
    THEN ComputeAccuracyLoss \cup {"accuracy"}
    ELSE {}

\* keys of the dict that task.RunInSession(options, ...) returns
RunInSession(task, options) ==
  CASE task = "ComputeAccuracyTask" ->
         IF ShouldRunAccuracyLossTrainVsTest(options)
           THEN ComputeAccuracyLoss ELSE {}
    [] task = "GILBOTask" ->
         IF Get(options, "compute_gilbo", FALSE)
           THEN {"gilbo", "gilbo_train_consistency",
                 "gilbo_eval_consistency", "gilbo_self_consistency"}
           ELSE {}
    [] task = "GeneratorConditionNumberTask" ->
         IF Get(options, "compute_generator_condition_number", FALSE)
           THEN {"log_condition_number_count", "log_condition_number_mean",
                 "log_condition_number_std"}
           ELSE {}
    [] OTHER -> {}

\* KIDScoreTask computing its score whatever compute_kid_score says
RunAfterSessionAlways(task, options) ==
  CASE task = "InceptionScoreTask" -> {"inception_score"}
    [] task = "FIDScoreTask" -> {"fid_score"}
    [] task = "KIDScoreTask" -> {"kid_score"}
    [] task = "MultiscaleSSIMTask" ->
         IF ShouldRunMultiscaleSSIM(options) THEN {"ms_ssim"} ELSE {}
    [] task = "FractalDimensionTask" ->
         IF Get(options, "compute_fractal_dimension", FALSE)
           THEN {"fractal_dimension"} ELSE {}
    [] OTHER -> {}

\* keys of the dict that task.RunAfterSession(options, ...) returns
RunAfterSession(task, options) ==
  CASE task = "InceptionScoreTask" -> {"inception_score"}
    [] task = "FIDScoreTask" -> {"fid_score"}
    [] task = "KIDScoreTask" ->
         IF Get(options, "compute_kid_score", FALSE)
           THEN {"kid_score"} ELSE {}
    [] task = "MultiscaleSSIMTask" ->
         IF ShouldRunMultiscaleSSIM(options) THEN {"ms_ssim"} ELSE {}
    [] task = "FractalDimensionTask" ->
         IF Get(options, "compute_fractal_dimension", FALSE)
           THEN {"fractal_dimension"} ELSE {}
    [] OTHER -> {}

\* the hook of a task draws from np.random (np.random.choice and
\* z_generator in ComputeAccuracyLoss, z_generator in
\* ComputeGeneratorConditionNumber, np.random.randint in
\* ComputeFractalDimension)
Draws(task, options) ==
  \/ task = "ComputeAccuracyTask" /\ ShouldRunAccuracyLossTrainVsTest(options)
  \/ /\ task = "GeneratorConditionNumberTask"
     /\ Get(options, "compute_generator_condition_number", FALSE)
  \/ /\ task = "FractalDimensionTask"
     /\ Get(options, "compute_fractal_dimension", FALSE)

\* ------------------------------------------------------------ table layout
IdColumns == <<"checkpoint_path", "model", "dataset", "tf_seed", "sample_id">>

\* one sorted() over the metric names of all tasks together
task_headers_sorted ==
  sorted(UNION {MetricsList(tasks_to_run[j]) : j \in 1..Len(tasks_to_run)})

\* task_headers: sorted(task.MetricsList()) of every task, in task order
task_headers ==
  Flatten([j \in 1..Len(tasks_to_run) |-> sorted(MetricsList(tasks_to_run[j]))])

\* names that params.GetParameters may report besides "architecture"
ParamUniverse == {"beta1", "lambda"}

\* GetAllTrainingParams(), keys being what params.GetParameters reports
GetAllTrainingParams(keys) == sorted({"architecture"} \cup keys)

csv_header(keys) == IdColumns \o task_headers \o GetAllTrainingParams(keys)

\* "%03d" of a number below 1000
Pad3(n) ==
  IF n < 10 THEN "00" \o ToString(n)
  ELSE IF n < 100 THEN "0" \o ToString(n)
  ELSE ToString(n)

\* "%.3f" % v, v counted in thousandths
Format3(v) ==
  LET a == IF v < 0 THEN 0 - v ELSE v
  IN  (IF v < 0 THEN "-" ELSE "") \o ToString(a \div Milli) \o "."
        \o Pad3(a % Milli)

\* DEFAULT_VALUES[param] raises KeyError for some column that options
\* does not define
RowRaises(options, keys) ==
  \E param \in Range(GetAllTrainingParams(keys)) :
    param \notin DOMAIN options /\ param \notin DOMAIN DEFAULT_VALUES

\* the metric values appended in one sorted order of all metric names
OutputRowSorted(checkpoint_path, options, result, default, keys) ==
  LET train_params == GetAllTrainingParams(keys)
  IN  << checkpoint_path, options["gan_type"], options["dataset"],
         Get(options, "tf_seed", ToString(DEFAULT_SEED)),
         Get(options, "sample_id", ToString(DEFAULT_SEED)) >>
      \o [j \in 1..Len(task_headers_sorted) |->
            Format3(Get(result, task_headers_sorted[j], default))]
      \o [j \in 1..Len(train_params) |->
            IF train_params[j] \in DOMAIN options
              THEN options[train_params[j]]
              ELSE DEFAULT_VALUES[train_params[j]]]

\* output_row of RunTaskEval
OutputRow(checkpoint_path, options, result, default, keys) ==
  LET train_params == GetAllTrainingParams(keys)
  IN  << checkpoint_path, options["gan_type"], options["dataset"],
         Get(options, "tf_seed", ToString(DEFAULT_SEED)),
         Get(options, "sample_id", ToString(DEFAULT_SEED)) >>
      \o [j \in 1..Len(task_headers) |->
            Format3(Get(result, task_headers[j], default))]
      \o [j \in 1..Len(train_params) |->
            IF train_params[j] \in DOMAIN options
              THEN options[train_params[j]]
              ELSE DEFAULT_VALUES[train_params[j]]]

\* ---------------------------------------------------------- csv.DictReader
\* row.keys() of the dict DictReader builds for one record
RowKeys(fieldnames, row) ==
  Range(fieldnames) \cup (IF Len(row) > Len(fieldnames) THEN {NoneKey} ELSE {})

\* row[name] of that dict (a later duplicate field name wins, a missing
\* field reads as None)
RowGet(fieldnames, row, name) ==
  LET j == CHOOSE j \in 1..Len(fieldnames) :
             /\ fieldnames[j] = name
             /\ \A l \in (j+1)..Len(fieldnames) : fieldnames[l] # name
  IN  IF j <= Len(row) THEN row[j] ELSE NoneKey

\* sorted(csv_header) != sorted(list(row.keys())), negated
KeysMatch(header, keys) ==
  /\ Range(header) = keys
  /\ Len(header) = Cardinality(keys)

RECURSIVE ScanRows(_, _, _, _)
\* the loop "for row in reader" of RunTaskEval from record k on
ScanRows(f, header, k, acc) ==
  IF k > Len(f) THEN [status |-> "ok", finished |-> acc]
  ELSE LET keys == RowKeys(f[1], f[k])
       IN  IF NoneKey \in keys
             THEN [status |-> "NoneKey", finished |-> {}]
           ELSE IF ~ KeysMatch(header, keys)
             THEN [status |-> "ValueError", finished |-> {}]
           ELSE ScanRows(f, header, k + 1,
                         acc \cup {RowGet(f[1], f[k], "checkpoint_path")})

\* reading the score table: the status of the scan and finished_checkpoints
ReadScores(f, header) == ScanRows(f, header, 2, {})


\* ------------------------------------------------------------- environment
\* checkpoint_state.all_model_checkpoint_paths
all_checkpoint_paths == [j \in 1..NumCheckpoints |-> "ckpt-" \o ToString(j)]

\* options of the trials explored, with what the dataset can deliver:
\* test_ok: the test split holds num_test_examples images,
\* train_ok: the train split holds at least as many images as the test set
FullOptions ==
  [ gan_type |-> "GAN_PENALTY", dataset |-> "celeba", tf_seed |-> "7",
    compute_kid_score |-> TRUE, compute_fractal_dimension |-> TRUE,
    compute_gilbo |-> TRUE, compute_generator_condition_number |-> TRUE,
    beta1 |-> "0.5" ]

PlainOptions == [ gan_type |-> "GAN", dataset |-> "mnist", sample_id |-> "3" ]

\* some optional tasks switched on, the others switched off by a false flag
\* or by a missing one, for a penalty model that is not GAN_WITH_PENALTY
MixedOptions ==
  [ gan_type |-> "WGAN_PENALTY", dataset |-> "mnist", sample_id |-> "3",
    compute_kid_score |-> FALSE, compute_fractal_dimension |-> TRUE,
    compute_generator_condition_number |-> TRUE ]

Trials ==
  { [options |-> FullOptions, test_ok |-> TRUE, train_ok |-> TRUE],
    [options |-> MixedOptions, test_ok |-> TRUE, train_ok |-> FALSE],
    [options |-> FullOptions, test_ok |-> TRUE, train_ok |-> FALSE],
    [options |-> PlainOptions, test_ok |-> FALSE, train_ok |-> TRUE],
    [options |-> [PlainOptions EXCEPT !.gan_type = "MY_GAN"],
     test_ok |-> TRUE, train_ok |-> TRUE] }

\* what a checkpoint's frozen model does under the fixed seed:
\*   "ok"       generation and every metric library call succeed
\*   "nan"      some generated batch contains a NaN
\*   "hookfail" the FID library call raises inside RunAfterSession
ModelKinds == {"ok", "nan", "hookfail"}

VARIABLES
  trial,                \* options of the trial and its dataset
  model,                \* checkpoint path -> kind of its frozen model
  paramKeys,            \* keys reported by params.GetParameters
  exists,               \* tf.gfile.Exists(scores_path)
  file,                 \* durable records of scores_path
  buffer,               \* records written to f and not yet flushed
  pc,                   \* position of the control flow
  run,                  \* number of RunTaskEval calls started
  i,                    \* index of checkpoint_path in all_checkpoint_paths
  finished_checkpoints, \* the set RunTaskEval reads from the table
  open_sessions,        \* number of open model sessions (tf.Session)
  batch,                \* generator batches produced for the checkpoint
  t,                    \* index of the task whose hook runs next
  result_dict,          \* result_dict of RunCheckpointEval / RunTaskEval
  default_value,        \* default_value of RunTaskEval, in thousandths
  raised,               \* the error that ended the run, "" when none
  evaluated,            \* paths passed to RunCheckpointEval in this run
  wroteHeader,          \* this run wrote the header record
  startFile,            \* the table as the run found it
  since,                \* what preceded the run
  env,                  \* what happened to the table or the schema since
  orig,                 \* the table before it was truncated
  rng,                  \* state of the np.random generator of the process
  latents,              \* z_sample of every batch of the checkpoint in hand
  saved,                \* what SaveFinalEvaluationScore did on this table
  hooks,                \* hook calls made for the checkpoint in hand
  recorded              \* paths with a NaN row written under this header

\* the variables of the sweep
sweepVars ==
  << trial, model, paramKeys, exists, file, buffer, pc, run, i,
     finished_checkpoints, open_sessions, batch, t, result_dict,
     default_value, raised, evaluated, wroteHeader, startFile, since, env,
     orig, rng,
     latents, saved, hooks, recorded >>

\* ------------------------------------------------- the image populations
\* The populations of one RunCheckpointEval call (GetRealImages, the
\* generation loop, truncation and channel reconciliation) are followed
\* with their sizes and pixel values in SpecPopulation.  An image is the
\* sequence of the channel values of one pixel.
VARIABLES
  call,               \* the inputs of the call under study
  ppc,                \* position of the control flow in that call
  num_test_examples,  \* num_test_examples of RunCheckpointEval
  data_x,             \* data_x of GetRealImages
  real_images,        \* real_images, once GetRealImages has returned
  samples,            \* samples of RunCheckpointEval: a list of batches
  fake_images,        \* fake_images of RunCheckpointEval
  pop_error           \* the exception that ended the call, "" when none

popVars ==
  << call, ppc, num_test_examples, data_x, real_images, samples, fake_images,
     pop_error >>

\* no call is followed
PopIdle ==
  /\ call = [caller |-> "none"]
  /\ ppc = "idle"
  /\ num_test_examples = 0
  /\ data_x = << >>
  /\ real_images = << >>
  /\ samples = << >>
  /\ fake_images = << >>
  /\ pop_error = ""

\* ------------------------------------------------------ ComputeAccuracyLoss
\* One call of ComputeAccuracyLoss is followed in SpecAccuracy.  Predictions
\* are counted in thousandths; accuracies and losses are exact fractions
\* <<numerator, denominator>>, NaN being np.mean of an empty list.
VARIABLES
  acall,              \* the inputs of the call under study
  apc,                \* position of the control flow in that call
  repeat,             \* number of repeats that are over
  train_predictions,  \* the lists of one repeat
  test_predictions,
  fake_predictions,
  train_d_losses,     \* used for one repeat and for the results
  test_d_losses,
  train_accuracies,   \* one entry per repeat
  test_accuracies,
  fake_accuracies,
  acc_result,         \* the returned result_dict
  acc_error,          \* the exception that ended the call, "" when none
  outcomes            \* per repeat and batch: the test images fed, what
                      \* sess.run returned

accVars ==
  << acall, apc, repeat, train_predictions, test_predictions,
     fake_predictions, train_d_losses, test_d_losses, train_accuracies,
     test_accuracies, fake_accuracies, acc_result, acc_error, outcomes >>

\* no call is followed
AccIdle ==
  /\ acall = [num_repeat |-> 0]
  /\ apc = "idle"
  /\ repeat = 0
  /\ train_predictions = << >>
  /\ test_predictions = << >>
  /\ fake_predictions = << >>
  /\ train_d_losses = << >>
  /\ test_d_losses = << >>
  /\ train_accuracies = << >>
  /\ test_accuracies = << >>
  /\ fake_accuracies = << >>
  /\ acc_result = << >>
  /\ acc_error = ""
  /\ outcomes = << >>

vars == << sweepVars, popVars, accVars >>

options == trial.options

\* the header this run expects
expected_header == csv_header(paramKeys)

checkpoint_path == all_checkpoint_paths[i]

Terminal == {"init", "done", "failed", "crashed"}

\* the seed RunCheckpointEval gives np.random
EVAL_SEED == 42

\* states np.random may be in when RunCheckpointEval is first called in a
\* sweep: not seeded by the program, different from one process to the next
Unseeded == { [seed |-> 0, pos |-> 0], [seed |-> 1, pos |-> 0] }

\* the generator has not been used in this sweep: its state is some state
\* of Unseeded, fixed when it is first looked at
Forgotten == [seed |-> 0 - 1, pos |-> 0]

\* the call np.random.seed left out
np_random_seed_none(state, seed) == state

\* np.random.seed(seed)
np_random_seed(state, seed) == [seed |-> seed, pos |-> 0]

\* the generator after one more draw
Advance(state) == [state EXCEPT !.pos = @ + 1]

\* gan.z_generator(gan.batch_size, gan.z_dim): the next value of np.random
z_generator(state) == << state.seed, state.pos >>

\* the latent batches drawn by an evaluation that stands alone: n draws
\* from a generator just seeded with EVAL_SEED
ReferenceLatents(n) ==
  [k \in 1..n |-> z_generator([seed |-> EVAL_SEED, pos |-> k - 1])]

RECURSIVE Checksum(_)
\* a number that tells sequences of latent batches apart
Checksum(zs) ==
  IF zs = << >> THEN 0
  ELSE (3 * zs[1][1] + zs[1][2] + 1) * Len(zs) + Checksum(Tail(zs))

\* the value a metric library returns for a checkpoint whose images were
\* generated from the latent batches zs (deterministic)
MetricValue(path, zs) ==
  LET j == CHOOSE j \in 1..NumCheckpoints : all_checkpoint_paths[j] = path
  IN  j * 1234 + 56 + Checksum(zs)

\* ------------------------------------------------ SaveFinalEvaluationScore
\* the values of metric_name followed
MetricNames == {"inception_score", "fid_score"}

\* no call of SaveFinalEvaluationScore since the table last changed
NoSave == [metric_name |-> "", error |-> "", output |-> ""]

\* the numbers a field written by "%.3f" can stand for, in thousandths
FieldValues ==
  {DEFAULT_METRIC * Milli, NAN_DETECTED * Milli}
    \cup {MetricValue(all_checkpoint_paths[j], ReferenceLatents(n)) :
            j \in 1..NumCheckpoints, n \in 0..NumBatches}

\* a float read from a field: <<"num", thousandths>>, <<"nan", 0>> for a
\* missing field
ParseField(row, j) ==
  IF j > Len(row) THEN << "nan", 0 >>
  ELSE << "num", CHOOSE v \in FieldValues : Format3(v) = row[j] >>

\* Python "<" on two floats: False when either is nan
FloatLess(x, y) == x[1] = "num" /\ y[1] = "num" /\ x[2] < y[2]

RECURSIVE PyMin(_, _)
\* min(values) of Python, m being the least value so far
PyMin(values, m) ==
  IF values = << >> THEN m
  ELSE PyMin(Tail(values), IF FloatLess(Head(values), m) THEN Head(values) ELSE m)

\* str() of a float that is a whole number of thousandths
StrFloat(x) ==
  IF x[1] = "nan" THEN "nan"
  ELSE LET a == IF x[2] < 0 THEN 0 - x[2] ELSE x[2]
           frac == a % Milli
       IN  (IF x[2] < 0 THEN "-" ELSE "") \o ToString(a \div Milli) \o "."
             \o (IF frac % 100 = 0 THEN ToString(frac \div 100)
                 ELSE IF frac % 10 = 0
                   THEN (IF frac < 100 THEN "0" ELSE "") \o ToString(frac \div 10)
                 ELSE Pad3(frac))

\* position of a name in a header record
ColumnOf(header, name) == CHOOSE j \in 1..Len(header) : header[j] = name

\* pd.read_csv(scores_path), min(data[metric_name]) and str(min_score): the
\* first record names the columns; records with more fields than names give
\* their leading fields to the index, so that every name moves right
ReadMin(f, metric_name) ==
  IF f = << >> THEN [error |-> "EmptyDataError", output |-> ""]
  ELSE IF metric_name \notin Range(f[1])
    THEN [error |-> "KeyError", output |-> ""]
  ELSE IF Len(f) = 1 THEN [error |-> "ValueError", output |-> ""]
  ELSE LET header == f[1]
           lead == IF Len(f[2]) > Len(header)
                     THEN Len(f[2]) - Len(header) ELSE 0
           column == [k \in 2..Len(f) |->
                        ParseField(f[k], ColumnOf(header, metric_name) + lead)]
           values == [k \in 1..(Len(f) - 1) |-> column[k + 1]]
       IN  IF \E k \in 2..Len(f) : Len(f[k]) > Len(header) + lead
             THEN [error |-> "ParserError", output |-> ""]
             ELSE [error |-> "",
                   output |-> StrFloat(PyMin(Tail(values), Head(values)))]

\* the sweep before the first call of RunTaskEval
SweepInit ==
  /\ trial \in Trials
  /\ model \in [Range(all_checkpoint_paths) -> ModelKinds]
  /\ paramKeys \in {{}, ParamUniverse}
  /\ exists = FALSE
  /\ file = << >>
  /\ buffer = << >>
  /\ pc = "init"
  /\ run = 0
  /\ i = 1
  /\ finished_checkpoints = {}
  /\ open_sessions = 0
  /\ batch = 0
  /\ t = 1
  /\ result_dict = EmptyDict
  /\ default_value = DEFAULT_METRIC * Milli
  /\ raised = ""
  /\ evaluated = << >>
  /\ wroteHeader = FALSE
  /\ startFile = << >>
  /\ since = "init"
  /\ env = "none"
  /\ orig = << >>
  /\ rng = Forgotten
  /\ latents = << >>
  /\ saved = NoSave
  /\ hooks = << >>
  /\ recorded = {}

Init == SweepInit /\ PopIdle /\ AccIdle

\* the sweep at rest while a single call is followed
SweepIdle ==
  /\ SweepInit
  /\ trial = [options |-> MixedOptions, test_ok |-> TRUE, train_ok |-> FALSE]
  /\ model = [p \in Range(all_checkpoint_paths) |-> "ok"]
  /\ paramKeys = {}


\* ------------------------------------------------------------- RunTaskEval
\* the existence test gone: the table is always created anew
MustCreateAlways == TRUE

\* "if not tf.gfile.Exists(scores_path)"
MustCreate == ~ exists

\* the records the last run appended that are in the table
LastRows ==
  SubSeq(file, (IF wroteHeader THEN 1 ELSE Len(startFile)) + 1, Len(file))

\* the first fields of the records that hold "%.3f" % NAN_DETECTED in every
\* metric column
SentinelPaths(rows) ==
  { rows[k][1] : k \in { k \in 1..Len(rows) :
      \A m \in 1..Len(task_headers) :
        rows[k][Len(IdColumns) + m] = Format3(NAN_DETECTED * Milli) } }

\* the paths of a set that have a record in table f
StillRecorded(paths, f) ==
  { path \in paths : \E k \in 1..Len(f) : f[k][1] = path }

\* RunTaskEval is called: the header is computed, the table is looked up
RunStart ==
  /\ pc \in Terminal
  /\ run < MaxRuns
  /\ run' = run + 1
  /\ since' = IF env # "none" THEN env ELSE pc
  /\ env' = "none"
  /\ orig' = IF env = "truncated" THEN orig ELSE << >>
  /\ startFile' = file
  /\ evaluated' = << >>
  /\ wroteHeader' = FALSE
  /\ finished_checkpoints' = {}
  /\ raised' = ""
  /\ i' = 1
  /\ pc' = IF MustCreate THEN "create" ELSE "read"
  /\ UNCHANGED << trial, model, paramKeys, exists, file, buffer,
                  open_sessions, batch, t, result_dict, default_value >>
  /\ rng' = Forgotten
  /\ latents' = << >>
  /\ UNCHANGED << popVars, accVars >>
  /\ recorded' = IF env = "changed" THEN {}
                 ELSE StillRecorded(recorded \cup SentinelPaths(LastRows), file)
  /\ saved' = NoSave
  /\ UNCHANGED hooks

\* tf.gfile.Open(scores_path, "w") brings an empty file into being
CreateFile ==
  /\ pc = "create"
  /\ exists' = TRUE
  /\ file' = << >>
  /\ pc' = "create_header"
  /\ UNCHANGED << trial, model, paramKeys, buffer, run, i,
                  finished_checkpoints, open_sessions, batch, t, result_dict,
                  default_value, raised, evaluated, wroteHeader, startFile,
                  since, env, orig >>
  /\ UNCHANGED << rng, latents, popVars, accVars >>
  /\ UNCHANGED recorded
  /\ UNCHANGED saved
  /\ UNCHANGED hooks

\* writer.writeheader() and the close of the "w" file, on creation and on
\* the rewrite after a header mismatch
WriteHeader ==
  /\ pc \in {"create_header", "rewrite_header"}
  /\ file' = << expected_header >>
  /\ wroteHeader' = TRUE
  /\ pc' = IF pc = "create_header" THEN "read" ELSE "loop"
  /\ UNCHANGED << trial, model, paramKeys, exists, buffer, run, i,
                  finished_checkpoints, open_sessions, batch, t, result_dict,
                  default_value, raised, evaluated, startFile, since, env,
                  orig >>
  /\ UNCHANGED << rng, latents, popVars, accVars >>
  /\ UNCHANGED recorded
  /\ UNCHANGED saved
  /\ UNCHANGED hooks

\* the table is read and every record has the expected keys
ReadFinished ==
  /\ pc = "read"
  /\ ReadScores(file, expected_header).status = "ok"
  /\ finished_checkpoints' = ReadScores(file, expected_header).finished
  /\ pc' = "loop"
  /\ UNCHANGED << trial, model, paramKeys, exists, file, buffer, run, i,
                  open_sessions, batch, t, result_dict, default_value, raised,
                  evaluated, wroteHeader, startFile, since, env, orig >>
  /\ UNCHANGED << rng, latents, popVars, accVars >>
  /\ UNCHANGED recorded
  /\ UNCHANGED saved
  /\ UNCHANGED hooks

\* a record has other keys: ValueError("wrong csv keys.") is caught,
\* finished_checkpoints is emptied and the table is opened with "w".
\* A record with surplus fields has the key None: Python 2 sorts it and
\* finds the lists different.
ReadMismatch ==
  /\ pc = "read"
  /\ ReadScores(file, expected_header).status \in {"ValueError", "NoneKey"}
  /\ finished_checkpoints' = {}
  /\ file' = << >>
  /\ pc' = "rewrite_header"
  /\ UNCHANGED << trial, model, paramKeys, exists, buffer, run, i,
                  open_sessions, batch, t, result_dict, default_value, raised,
                  evaluated, wroteHeader, startFile, since, env, orig >>
  /\ UNCHANGED << rng, latents, popVars, accVars >>
  /\ UNCHANGED recorded
  /\ UNCHANGED saved
  /\ UNCHANGED hooks

\* Python 3 cannot sort the key None among strings: sorted() raises
\* TypeError, which "except ValueError" does not catch
ReadTypeError ==
  /\ pc = "read"
  /\ ReadScores(file, expected_header).status = "NoneKey"
  /\ raised' = "TypeError"
  /\ pc' = "failed"
  /\ UNCHANGED << trial, model, paramKeys, exists, file, buffer, run, i,
                  finished_checkpoints, open_sessions, batch, t, result_dict,
                  default_value, evaluated, wroteHeader, startFile, since,
                  env, orig >>
  /\ UNCHANGED << rng, latents, popVars, accVars >>
  /\ UNCHANGED recorded
  /\ UNCHANGED saved
  /\ UNCHANGED hooks

\* the membership test gone: nothing counts as finished
IsFinishedNever(path) == FALSE

\* "if checkpoint_path in finished_checkpoints"
IsFinished(path) == path \in finished_checkpoints

\* the for loop is exhausted: the "a" file is closed, RunTaskEval returns
LoopExit ==
  /\ pc = "loop"
  /\ i > Len(all_checkpoint_paths)
  /\ file' = file \o buffer
  /\ buffer' = << >>
  /\ pc' = "done"
  /\ UNCHANGED << trial, model, paramKeys, exists, run, i,
                  finished_checkpoints, open_sessions, batch, t, result_dict,
                  default_value, raised, evaluated, wroteHeader, startFile,
                  since, env, orig >>
  /\ rng' = Forgotten
  /\ latents' = << >>
  /\ UNCHANGED << popVars, accVars >>
  /\ UNCHANGED recorded
  /\ UNCHANGED saved
  /\ UNCHANGED hooks

\* "Skipping already computed path"
LoopSkip ==
  /\ pc = "loop"
  /\ i <= Len(all_checkpoint_paths)
  /\ IsFinished(checkpoint_path)
  /\ i' = i + 1
  /\ UNCHANGED << trial, model, paramKeys, exists, file, buffer, pc, run,
                  finished_checkpoints, open_sessions, batch, t, result_dict,
                  default_value, raised, evaluated, wroteHeader, startFile,
                  since, env, orig >>
  /\ UNCHANGED << rng, latents, popVars, accVars >>
  /\ UNCHANGED recorded
  /\ UNCHANGED saved
  /\ UNCHANGED hooks

\* a pending checkpoint: default_value = -1.0, RunCheckpointEval is called
LoopEval ==
  /\ pc = "loop"
  /\ i <= Len(all_checkpoint_paths)
  /\ ~ IsFinished(checkpoint_path)
  /\ default_value' = DEFAULT_METRIC * Milli
  /\ result_dict' = EmptyDict
  /\ evaluated' = Append(evaluated, checkpoint_path)
  /\ pc' = "eval"
  /\ UNCHANGED << trial, model, paramKeys, exists, file, buffer, run, i,
                  finished_checkpoints, open_sessions, batch, t, raised,
                  wroteHeader, startFile, since, env, orig >>
  /\ UNCHANGED << rng, latents, popVars, accVars >>
  /\ UNCHANGED recorded
  /\ UNCHANGED saved
  /\ UNCHANGED hooks


\* ------------------------------------------------------- RunCheckpointEval
\* no except clause
CaughtNone(err) == FALSE

\* "except Exception"
CaughtAll(err) == TRUE

\* "except NanFoundError": the errors the loop of RunTaskEval handles
Caught(err) == err = "NanFoundError"

\* the session is not closed when an exception leaves its block
UnwindLeak(n) == n

\* the number of open sessions once an exception has left the
\* "with tf.Session() as sess" block, if it was inside one
Unwind(n) == IF n > 0 THEN n - 1 ELSE n

\* an exception err leaves RunCheckpointEval.  Caught, the handler
\* empties result_dict and sets default_value = NAN_DETECTED; otherwise it
\* leaves RunTaskEval through the "a" file's with block, which closes the file
Raise(err) ==
  /\ open_sessions' = Unwind(open_sessions)
  /\ batch' = 0
  /\ t' = 1
  /\ result_dict' = EmptyDict
  /\ IF Caught(err)
       THEN /\ default_value' = NAN_DETECTED * Milli
            /\ pc' = "row"
            /\ UNCHANGED << raised, file, buffer >>
       ELSE /\ default_value' = DEFAULT_METRIC * Milli
            /\ raised' = err
            /\ pc' = "failed"
            /\ file' = file \o buffer
            /\ buffer' = << >>

\* the gan_type check left out
UnsupportedNever(gan_type) == FALSE

\* "if gan_type not in SUPPORTED_GANS"
Unsupported(gan_type) == gan_type \notin SUPPORTED_GANS

\* np.random.seed(42) and the gan_type check
EvalStart ==
  /\ pc = "eval"
  /\ IF Unsupported(options["gan_type"])
       THEN Raise("ValueError")
       ELSE /\ pc' = "real_images"
            /\ UNCHANGED << file, buffer, open_sessions, batch, t,
                            result_dict, default_value, raised >>
  /\ UNCHANGED << trial, model, paramKeys, exists, run, i,
                  finished_checkpoints, evaluated, wroteHeader, startFile,
                  since, env, orig >>
  /\ \E state \in (IF rng = Forgotten THEN Unseeded ELSE {rng}) :
       rng' = IF pc' = "failed" THEN Forgotten
              ELSE np_random_seed(state, EVAL_SEED)
  /\ latents' = << >>
  /\ UNCHANGED << popVars, accVars >>
  /\ UNCHANGED recorded
  /\ UNCHANGED saved
  /\ UNCHANGED hooks

\* real_images = GetRealImages(dataset, "test", num_test_examples): the
\* test split is read; ValueError when it is too short
ReadRealImages ==
  /\ pc = "real_images"
  /\ IF ~ trial.test_ok
       THEN Raise("ValueError")
       ELSE /\ pc' = "session"
            /\ UNCHANGED << file, buffer, open_sessions, batch, t,
                            result_dict, default_value, raised >>
  /\ UNCHANGED << trial, model, paramKeys, exists, run, i,
                  finished_checkpoints, evaluated, wroteHeader, startFile,
                  since, env, orig >>
  /\ rng' = IF pc' = "failed" THEN Forgotten ELSE rng
  /\ latents' = IF pc' = "failed" THEN << >> ELSE latents
  /\ UNCHANGED << popVars, accVars >>
  /\ UNCHANGED recorded
  /\ UNCHANGED saved
  /\ UNCHANGED hooks

\* "with tf.Session() as sess": the model is built and restored
SessionOpen ==
  /\ pc = "session"
  /\ open_sessions' = open_sessions + 1
  /\ batch' = 0
  /\ pc' = "generate"
  /\ UNCHANGED << trial, model, paramKeys, exists, file, buffer, run, i,
                  finished_checkpoints, t, result_dict, default_value, raised,
                  evaluated, wroteHeader, startFile, since, env, orig >>
  /\ UNCHANGED << rng, latents, popVars, accVars >>
  /\ UNCHANGED recorded
  /\ UNCHANGED saved
  /\ UNCHANGED hooks

\* what sess.run(gan.fake_images) can return for batch b of a checkpoint:
\* a "nan" model yields a NaN in some batch, the last one at the latest
BatchContents(kind, b) ==
  IF kind = "nan"
    THEN (IF b < NumBatches THEN {"clean", "nan"} ELSE {"nan"})
    ELSE {"clean"}

\* the NaN test left out
np_isnan_any_never(x) == FALSE

\* np.isnan(x).any()
np_isnan_any(x) == x = "nan"

\* one generator batch without NaN is appended to samples
GenerateBatch ==
  /\ pc = "generate"
  /\ batch < NumBatches
  /\ \E x \in BatchContents(model[checkpoint_path], batch + 1) :
       ~ np_isnan_any(x)
  /\ batch' = batch + 1
  /\ t' = 1
  /\ pc' = IF batch + 1 = NumBatches THEN "in_session" ELSE "generate"
  /\ UNCHANGED << trial, model, paramKeys, exists, file, buffer, run, i,
                  finished_checkpoints, open_sessions, result_dict,
                  default_value, raised, evaluated, wroteHeader, startFile,
                  since, env, orig >>
  /\ latents' = Append(latents, z_generator(rng))
  /\ rng' = Advance(rng)
  /\ UNCHANGED << popVars, accVars >>
  /\ UNCHANGED recorded
  /\ UNCHANGED saved
  /\ UNCHANGED hooks

\* np.isnan(x).any(): NanFoundError is raised at this batch
GenerateNan ==
  /\ pc = "generate"
  /\ batch < NumBatches
  /\ \E x \in BatchContents(model[checkpoint_path], batch + 1) :
       np_isnan_any(x)
  /\ Raise("NanFoundError")
  /\ UNCHANGED << trial, model, paramKeys, exists, run, i,
                  finished_checkpoints, evaluated, wroteHeader, startFile,
                  since, env, orig >>
  /\ latents' = Append(latents, z_generator(rng))
  /\ rng' = Advance(rng)
  /\ UNCHANGED << popVars, accVars >>
  /\ UNCHANGED recorded
  /\ UNCHANGED saved
  /\ UNCHANGED hooks

\* a hook call as RunCheckpointEval makes it: the hook, its task, whether
\* the session is open and how many batches have been generated
HookCall(hook, task) ==
  [ hook |-> hook, task |-> task, session_open |-> open_sessions > 0,
    batches |-> Len(latents) ]

\* ComputeAccuracyLoss raises when the train split is smaller than the
\* test set
InSessionRaises(task) ==
  /\ task = "ComputeAccuracyTask"
  /\ ShouldRunAccuracyLossTrainVsTest(options)
  /\ ~ trial.train_ok

\* result_dict.update(task.RunInSession(options, sess, gan, real_images))
InSessionStep ==
  /\ pc = "in_session"
  /\ IF InSessionRaises(tasks_to_run[t])
       THEN Raise("ValueError")
       ELSE /\ result_dict' =
                 Update(result_dict,
                        DictOf(RunInSession(tasks_to_run[t], options),
                               MetricValue(checkpoint_path, latents)))
            /\ t' = IF t = Len(tasks_to_run) THEN 1 ELSE t + 1
            /\ pc' = IF t = Len(tasks_to_run) THEN "close" ELSE "in_session"
            /\ UNCHANGED << file, buffer, open_sessions, batch,
                            default_value, raised >>
  /\ UNCHANGED << trial, model, paramKeys, exists, run, i,
                  finished_checkpoints, evaluated, wroteHeader, startFile,
                  since, env, orig >>
  /\ rng' = IF pc' = "failed" THEN Forgotten
             ELSE IF Draws(tasks_to_run[t], options) THEN Advance(rng)
             ELSE rng
  /\ latents' = IF pc' = "failed" THEN << >> ELSE latents
  /\ UNCHANGED << popVars, accVars >>
  /\ UNCHANGED recorded
  /\ UNCHANGED saved
  /\ hooks' = IF InSessionRaises(tasks_to_run[t]) THEN << >>
              ELSE Append(hooks, HookCall("RunInSession", tasks_to_run[t]))

\* the RunAfterSession loop moved into the "with tf.Session()" block: the
\* session is still open when it runs
SessionCloseLater ==
  /\ pc = "close"
  /\ batch' = 0
  /\ pc' = "after_session"
  /\ UNCHANGED << trial, model, paramKeys, exists, file, buffer, run, i,
                  finished_checkpoints, t, result_dict, default_value, raised,
                  evaluated, wroteHeader, startFile, since, env, orig,
                  open_sessions >>
  /\ UNCHANGED << rng, latents, popVars, accVars >>
  /\ UNCHANGED recorded
  /\ UNCHANGED saved
  /\ UNCHANGED hooks

\* the "with tf.Session()" block is left normally
SessionClose ==
  /\ pc = "close"
  /\ open_sessions' = open_sessions - 1
  /\ batch' = 0
  /\ pc' = "after_session"
  /\ UNCHANGED << trial, model, paramKeys, exists, file, buffer, run, i,
                  finished_checkpoints, t, result_dict, default_value, raised,
                  evaluated, wroteHeader, startFile, since, env, orig >>
  /\ UNCHANGED << rng, latents, popVars, accVars >>
  /\ UNCHANGED recorded
  /\ UNCHANGED saved
  /\ UNCHANGED hooks

\* the FID library call fails for this checkpoint
AfterSessionRaises(task) ==
  /\ task = "FIDScoreTask"
  /\ model[checkpoint_path] = "hookfail"

\* result_dict.update(task.RunAfterSession(options, fake_images, real_images))
AfterSessionStep ==
  /\ pc = "after_session"
  /\ IF AfterSessionRaises(tasks_to_run[t])
       THEN Raise("Error")
       ELSE /\ result_dict' =
                 Update(result_dict,
                        DictOf(RunAfterSession(tasks_to_run[t], options),
                               MetricValue(checkpoint_path, latents)))
            /\ t' = IF t = Len(tasks_to_run) THEN 1 ELSE t + 1
            /\ pc' = IF t = Len(tasks_to_run) THEN "row" ELSE "after_session"
            /\ UNCHANGED << file, buffer, open_sessions, batch,
                            default_value, raised >>
  /\ UNCHANGED << trial, model, paramKeys, exists, run, i,
                  finished_checkpoints, evaluated, wroteHeader, startFile,
                  since, env, orig >>
  /\ rng' = IF pc' = "failed" THEN Forgotten
             ELSE IF Draws(tasks_to_run[t], options) THEN Advance(rng)
             ELSE rng
  /\ latents' = IF pc' = "failed" THEN << >> ELSE latents
  /\ UNCHANGED << popVars, accVars >>
  /\ UNCHANGED recorded
  /\ UNCHANGED saved
  /\ hooks' = IF AfterSessionRaises(tasks_to_run[t]) THEN << >>
              ELSE Append(hooks, HookCall("RunAfterSession", tasks_to_run[t]))

\* output_row is built and handed to writer.writerow; a column without a
\* value in options and in DEFAULT_VALUES raises KeyError outside the try
WriteRow ==
  /\ pc = "row"
  /\ IF RowRaises(options, paramKeys)
       THEN /\ raised' = "KeyError"
            /\ pc' = "failed"
            /\ file' = file \o buffer
            /\ buffer' = << >>
       ELSE /\ buffer' = Append(buffer,
                                OutputRow(checkpoint_path, options,
                                          result_dict, default_value,
                                          paramKeys))
            /\ pc' = "flush"
            /\ UNCHANGED << file, raised >>
  /\ result_dict' = EmptyDict
  /\ default_value' = DEFAULT_METRIC * Milli
  /\ UNCHANGED << trial, model, paramKeys, exists, run, i,
                  finished_checkpoints, open_sessions, batch, t,
                  evaluated, wroteHeader, startFile, since, env, orig >>
  /\ rng' = IF pc' = "failed" THEN Forgotten ELSE rng
  /\ latents' = << >>
  /\ UNCHANGED << popVars, accVars >>
  /\ UNCHANGED recorded
  /\ UNCHANGED saved
  /\ hooks' = << >>

\* the next iteration without f.flush(): the record stays in the buffer
FlushLater ==
  /\ pc = "flush"
  /\ i' = i + 1
  /\ pc' = "loop"
  /\ UNCHANGED << trial, model, paramKeys, exists, file, buffer, run,
                  finished_checkpoints, open_sessions, batch, t, result_dict,
                  default_value, raised, evaluated, wroteHeader, startFile,
                  since, env, orig >>
  /\ UNCHANGED << rng, latents, popVars, accVars >>
  /\ UNCHANGED recorded
  /\ UNCHANGED saved
  /\ UNCHANGED hooks

\* f.flush(), then the next iteration
Flush ==
  /\ pc = "flush"
  /\ file' = file \o buffer
  /\ buffer' = << >>
  /\ i' = i + 1
  /\ pc' = "loop"
  /\ UNCHANGED << trial, model, paramKeys, exists, run,
                  finished_checkpoints, open_sessions, batch, t, result_dict,
                  default_value, raised, evaluated, wroteHeader, startFile,
                  since, env, orig >>
  /\ UNCHANGED << rng, latents, popVars, accVars >>
  /\ UNCHANGED recorded
  /\ UNCHANGED saved
  /\ UNCHANGED hooks

\* SaveFinalEvaluationScore(scores_path, metric_name, output_path) is
\* called on the table once RunTaskEval has returned
SaveFinalEvaluationScore ==
  /\ pc = "done"
  /\ env = "none"
  /\ saved = NoSave
  /\ \E metric_name \in MetricNames :
       saved' = [metric_name |-> metric_name,
                 error |-> ReadMin(file, metric_name).error,
                 output |-> ReadMin(file, metric_name).output]
  /\ UNCHANGED << trial, model, paramKeys, exists, file, buffer, pc, run, i,
                  finished_checkpoints, open_sessions, batch, t, result_dict,
                  default_value, raised, evaluated, wroteHeader, startFile,
                  since, env, orig, rng, latents >>
  /\ UNCHANGED << popVars, accVars >>
  /\ UNCHANGED recorded
  /\ UNCHANGED hooks

\* ---------------------------------------------------------- the environment
\* the process dies: what was not flushed is lost, its sessions are gone
Crash ==
  /\ pc \notin Terminal
  /\ pc' = "crashed"
  /\ buffer' = << >>
  /\ open_sessions' = 0
  /\ batch' = 0
  /\ t' = 1
  /\ result_dict' = EmptyDict
  /\ default_value' = DEFAULT_METRIC * Milli
  /\ UNCHANGED << trial, model, paramKeys, exists, file, run, i,
                  finished_checkpoints, raised, evaluated, wroteHeader,
                  startFile, since, env, orig >>
  /\ rng' = Forgotten
  /\ latents' = << >>
  /\ UNCHANGED << popVars, accVars >>
  /\ UNCHANGED recorded
  /\ UNCHANGED saved
  /\ hooks' = << >>

\* between two runs the program is upgraded: params.GetParameters reports
\* other keys
ChangeParams ==
  /\ pc \in Terminal
  /\ env = "none"
  /\ run < MaxRuns
  /\ exists
  /\ paramKeys' \in (SUBSET ParamUniverse) \ {paramKeys}
  /\ env' = "changed"
  /\ UNCHANGED << trial, model, exists, file, buffer, pc, run, i,
                  finished_checkpoints, open_sessions, batch, t, result_dict,
                  default_value, raised, evaluated, wroteHeader, startFile,
                  since, orig >>
  /\ UNCHANGED << rng, latents, popVars, accVars >>
  /\ UNCHANGED recorded
  /\ saved' = NoSave
  /\ UNCHANGED hooks

\* the table a completed sweep left is cut after its k-th data row
Truncate ==
  /\ pc = "done"
  /\ env = "none"
  /\ run < MaxRuns
  /\ \E k \in 0..(Len(file) - 1) :
       /\ file' = SubSeq(file, 1, k + 1)
       /\ orig' = file
  /\ env' = "truncated"
  /\ UNCHANGED << trial, model, paramKeys, exists, buffer, pc, run, i,
                  finished_checkpoints, open_sessions, batch, t, result_dict,
                  default_value, raised, evaluated, wroteHeader, startFile,
                  since >>
  /\ UNCHANGED << rng, latents, popVars, accVars >>
  /\ UNCHANGED recorded
  /\ saved' = NoSave
  /\ UNCHANGED hooks

Next ==
  \/ RunStart
  \/ CreateFile
  \/ WriteHeader
  \/ ReadFinished
  \/ ReadMismatch
  \/ ReadTypeError
  \/ LoopExit
  \/ LoopSkip
  \/ LoopEval
  \/ EvalStart
  \/ ReadRealImages
  \/ SessionOpen
  \/ GenerateBatch
  \/ GenerateNan
  \/ InSessionStep
  \/ SessionClose
  \/ AfterSessionStep
  \/ WriteRow
  \/ Flush
  \/ SaveFinalEvaluationScore
  \/ Crash
  \/ ChangeParams
  \/ Truncate

Spec == Init /\ [][Next]_vars


\* ===================================================== image populations
\* largest eval_test_samples explored, in whole inception batches
MaxFull == 2

\* INCEPTION_BATCH = 50
INCEPTION_BATCH == 50

\* pixel values are multiplied by 255.0
PIXEL_SCALE == 255

\* the values of eval_test_samples explored: around every multiple of
\* INCEPTION_BATCH
EvalTestSamples ==
  {k * INCEPTION_BATCH + r :
     k \in 0..MaxFull, r \in {0, 1, INCEPTION_BATCH - 1}}

\* the values of gan.batch_size explored
BatchSizes == {32, INCEPTION_BATCH, 64}

\* the numbers of channels of a dataset and of a generator
Channels == {1, 3}

\* image j of a split with C channels, pixel values in [0, 1]
DatasetImage(j, C) == [c \in 1..C |-> (j + c) % 2]

\* image k of generator batch b, C channels
GeneratedImage(b, k, C) == [c \in 1..C |-> (b + k + c + 1) % 2]

\* images *= 255.0
Scaled(images) ==
  [j \in 1..Len(images) |->
     [c \in 1..Len(images[j]) |-> PIXEL_SCALE * images[j][c]]]

\* the padding step left out: eval_test_samples is taken as it is
PaddedRaw(n) == n

\* "num_test_examples -= num_test_examples % INCEPTION_BATCH"
Padded(n) == IF n % INCEPTION_BATCH # 0 THEN n - (n % INCEPTION_BATCH) ELSE n

\* the quotient rounded up
FloorDivUp(a, b) == IF a % b = 0 THEN a \div b ELSE (a \div b) + 1

\* int(np.floor(a / b))
FloorDiv(a, b) == a \div b

\* int(np.ceil(a / b)), a >= 0, b > 0
CeilDiv(a, b) == IF a % b = 0 THEN a \div b ELSE (a \div b) + 1

\* the shortfall always raises, whatever the flag
ShortfallRaisesAlways(got, num_examples, failure_on_insufficient_examples) ==
  got # num_examples

\* "if real_images.shape[0] != num_examples: if failure_on_insufficient_
\* examples: raise ValueError"
ShortfallRaises(got, num_examples, failure_on_insufficient_examples) ==
  got # num_examples /\ failure_on_insufficient_examples

\* the tiling left out
np_tile_none(images, reps) == images

\* np.tile(images, [1, 1, 1, reps]): the channels repeated reps times
np_tile(images, reps) ==
  [j \in 1..Len(images) |->
     [c \in 1..(reps * Len(images[j])) |->
        images[j][((c - 1) % Len(images[j])) + 1]]]

\* number of channels of a population (shape[3]); 0 for an empty population
ChannelsOf(images) == IF images = << >> THEN 0 ELSE Len(images[1])

\* the inputs of a followed call.  required is GetRealImages'
\* failure_on_insufficient_examples: True from RunCheckpointEval (test
\* split), False from ComputeAccuracyLoss (train split).
Calls ==
  { [caller |-> c, eval_test_samples |-> e, batch_size |-> b,
     split_size |-> s, real_channels |-> rc, fake_channels |-> fc,
     nan_batch |-> nb] :
      c \in {"RunCheckpointEval", "ComputeAccuracyLoss"},
      e \in EvalTestSamples, b \in BatchSizes,
      s \in {0, INCEPTION_BATCH - 1, INCEPTION_BATCH,
             MaxFull * INCEPTION_BATCH, MaxFull * INCEPTION_BATCH + 1},
      rc \in Channels, fc \in Channels, nb \in {0, 1} }

\* num_examples passed to GetRealImages
num_examples ==
  IF call.caller = "RunCheckpointEval" THEN num_test_examples
  ELSE call.eval_test_samples

failure_on_insufficient_examples == call.caller = "RunCheckpointEval"

\* num_batches of the generation loop
num_batches == CeilDiv(num_test_examples, call.batch_size)

\* RunCheckpointEval computes num_test_examples; GetRealImages is entered
PopStart ==
  /\ ppc = "call"
  /\ num_test_examples' =
       IF call.caller = "RunCheckpointEval"
         THEN Padded(call.eval_test_samples) ELSE 0
  /\ data_x' = << >>
  /\ ppc' = "read"
  /\ UNCHANGED << call, real_images, samples, fake_images, pop_error >>
  /\ UNCHANGED << sweepVars, accVars >>

\* data_x.append(sess.run(get_next[0])): the split has another image
ReadImage ==
  /\ ppc = "read"
  /\ Len(data_x) < num_examples
  /\ Len(data_x) < call.split_size
  /\ data_x' = Append(data_x, DatasetImage(Len(data_x) + 1, call.real_channels))
  /\ UNCHANGED << call, ppc, num_test_examples, real_images, samples,
                  fake_images, pop_error >>
  /\ UNCHANGED << sweepVars, accVars >>

\* the range is exhausted or the split is (OutOfRangeError, break); the
\* number of images is checked, the images are scaled and returned
ReadDone ==
  /\ ppc = "read"
  /\ Len(data_x) = num_examples \/ Len(data_x) = call.split_size
  /\ IF ShortfallRaises(Len(data_x), num_examples,
                        failure_on_insufficient_examples)
       THEN /\ pop_error' = "ValueError"
            /\ ppc' = "failed"
            /\ UNCHANGED real_images
       ELSE /\ real_images' = Scaled(data_x)
            /\ ppc' = IF call.caller = "RunCheckpointEval"
                        THEN "generate" ELSE "returned"
            /\ UNCHANGED pop_error
  /\ UNCHANGED << call, num_test_examples, data_x, samples, fake_images >>
  /\ UNCHANGED << sweepVars, accVars >>

\* one batch of gan.batch_size generated images is appended to samples
GenerateOne ==
  /\ ppc = "generate"
  /\ Len(samples) < num_batches
  /\ call.nan_batch # Len(samples) + 1
  /\ samples' =
       Append(samples,
              [k \in 1..call.batch_size |->
                 GeneratedImage(Len(samples) + 1, k, call.fake_channels)])
  /\ UNCHANGED << call, ppc, num_test_examples, data_x, real_images,
                  fake_images, pop_error >>
  /\ UNCHANGED << sweepVars, accVars >>

\* the batch holds a NaN
GenerateOneNan ==
  /\ ppc = "generate"
  /\ Len(samples) < num_batches
  /\ call.nan_batch = Len(samples) + 1
  /\ pop_error' = "NanFoundError"
  /\ ppc' = "failed"
  /\ UNCHANGED << call, num_test_examples, data_x, real_images, samples,
                  fake_images >>
  /\ UNCHANGED << sweepVars, accVars >>

\* the generation loop is over; the RunInSession hooks run and the session
\* is closed
GenerateDone ==
  /\ ppc = "generate"
  /\ Len(samples) = num_batches
  /\ ppc' = "postprocess"
  /\ UNCHANGED << call, num_test_examples, data_x, real_images, samples,
                  fake_images, pop_error >>
  /\ UNCHANGED << sweepVars, accVars >>

\* np.concatenate, the cut to num_test_examples, the shape assertion, the
\* tiling of one-channel populations and the scaling of the fake images
Postprocess ==
  /\ ppc = "postprocess"
  /\ IF samples = << >>
       THEN /\ pop_error' = "ValueError"
            /\ ppc' = "failed"
            /\ UNCHANGED << real_images, fake_images >>
       ELSE LET all == Flatten(samples)
                cut == SubSeq(all, 1, IF num_test_examples < Len(all)
                                        THEN num_test_examples ELSE Len(all))
            IN  IF Len(cut) # Len(real_images)
                     \/ ChannelsOf(cut) # ChannelsOf(real_images)
                  THEN /\ pop_error' = "AssertionError"
                       /\ ppc' = "failed"
                       /\ UNCHANGED << real_images, fake_images >>
                  ELSE /\ fake_images' =
                            Scaled(IF ChannelsOf(cut) = 1
                                     THEN np_tile(cut, 3) ELSE cut)
                       /\ real_images' =
                            IF ChannelsOf(cut) = 1
                              THEN np_tile(real_images, 3) ELSE real_images
                       /\ ppc' = "after_session"
                       /\ UNCHANGED pop_error
  /\ UNCHANGED << call, num_test_examples, data_x, samples >>
  /\ UNCHANGED << sweepVars, accVars >>

\* the RunAfterSession hooks have been given fake_images and real_images
PopReturn ==
  /\ ppc = "after_session"
  /\ ppc' = "returned"
  /\ UNCHANGED << call, num_test_examples, data_x, real_images, samples,
                  fake_images, pop_error >>
  /\ UNCHANGED << sweepVars, accVars >>

InitPopulation ==
  /\ SweepIdle
  /\ AccIdle
  /\ call \in Calls
  /\ ppc = "call"
  /\ num_test_examples = 0
  /\ data_x = << >>
  /\ real_images = << >>
  /\ samples = << >>
  /\ fake_images = << >>
  /\ pop_error = ""

NextPopulation ==
  \/ PopStart
  \/ ReadImage
  \/ ReadDone
  \/ GenerateOne
  \/ GenerateOneNan
  \/ GenerateDone
  \/ Postprocess
  \/ PopReturn

SpecPopulation == InitPopulation /\ [][NextPopulation]_vars

\* ==================================================== ComputeAccuracyLoss
\* largest num_repeat explored
MaxRepeat == 2

\* discriminator_threshold = 0.5, in thousandths
DISCRIMINATOR_THRESHOLD == 500

RECURSIVE Gcd(_, _)
Gcd(a, b) == IF b = 0 THEN a ELSE Gcd(b, a % b)

\* nan, the value of 0.0 / 0, written as a fraction
NaN == << 0, 0 >>

\* the fraction n / d in lowest terms, d > 0
Frac(n, d) ==
  LET g == Gcd(IF n < 0 THEN 0 - n ELSE n, d)
  IN  << n \div g, d \div g >>

FracAdd(x, y) == Frac(x[1] * y[2] + y[1] * x[2], x[2] * y[2])

RECURSIVE FracSum(_)
FracSum(s) == IF s = << >> THEN << 0, 1 >> ELSE FracAdd(Head(s), FracSum(Tail(s)))

\* np.mean of a list of numbers: nan for the empty list
np_mean(s) ==
  IF s = << >> THEN NaN
  ELSE LET total == FracSum(s) IN Frac(total[1], total[2] * Len(s))

\* "x >= discriminator_threshold" taken for the fake images as well
IsFakeWrong(x) == x >= DISCRIMINATOR_THRESHOLD

\* "x < discriminator_threshold": a fake image is predicted fake
IsFake(x) == x < DISCRIMINATOR_THRESHOLD

\* "x >= discriminator_threshold": a real image is predicted real
IsReal(x) == x >= DISCRIMINATOR_THRESHOLD

\* sum(predictions): the number of True entries
CountTrue(s) == Cardinality({k \in 1..Len(s) : s[k]})

\* what the three sess.run calls of one batch return: the discriminator
\* output for the first image of the train, test and fake batch and the
\* two discriminator losses
BatchOutcomes ==
  { [train |-> 1000, test |-> 1000, fake |-> 0, train_d_loss |-> 1,
     test_d_loss |-> 2],
    [train |-> 1000, test |-> 1000, fake |-> 0, train_d_loss |-> 3,
     test_d_loss |-> 1],
    [train |-> 499, test |-> 500, fake |-> 500, train_d_loss |-> 5,
     test_d_loss |-> 4] }

\* a perfect discriminator: 1.0 for every real image, 0.0 for every fake one
Perfect(o) == o.train = 1000 /\ o.test = 1000 /\ o.fake = 0

\* the inputs of a followed call; test_n is test_images.shape[0]
AccCalls ==
  { [num_repeat |-> r, test_n |-> k * 2 + e, batch_size |-> 2,
     train_short |-> ts, perfect |-> p] :
      r \in 0..MaxRepeat, k \in 0..NumBatches, e \in {0, 1},
      ts \in BOOLEAN, p \in BOOLEAN }

\* num_batches of ComputeAccuracyLoss
acc_num_batches == FloorDiv(acall.test_n, acall.batch_size)

\* a[start:end] of a Python list of n items, as the positions taken
\* (counted from 0): the slice ends where the list ends
PySlice(start, end, n) ==
  LET stop == IF end < n THEN end ELSE n
  IN  IF stop <= start THEN << >>
      ELSE [k \in 1..(stop - start) |-> start + k - 1]

\* test_batch of batch i (counted from 0):
\* test_images[start_idx:end_idx]
test_batch(b) ==
  LET start_idx == b * acall.batch_size
      end_idx == start_idx + acall.batch_size
  IN  PySlice(start_idx, end_idx, acall.test_n)

\* the train split is read; it must not be smaller than the test set
AccStart ==
  /\ apc = "call"
  /\ IF acall.train_short
       THEN acc_error' = "ValueError" /\ apc' = "failed"
       ELSE acc_error' = acc_error /\ apc' = "repeat"
  /\ UNCHANGED << acall, repeat, train_predictions, test_predictions,
                  fake_predictions, train_d_losses, test_d_losses,
                  train_accuracies, test_accuracies, fake_accuracies,
                  acc_result, outcomes >>
  /\ UNCHANGED << sweepVars, popVars >>

\* "for repeat in range(num_repeat)": the lists of the repeat are emptied,
\* train_d_losses and test_d_losses among them
RepeatStart ==
  /\ apc = "repeat"
  /\ repeat < acall.num_repeat
  /\ train_predictions' = << >>
  /\ test_predictions' = << >>
  /\ fake_predictions' = << >>
  /\ train_d_losses' = << >>
  /\ test_d_losses' = << >>
  /\ outcomes' = Append(outcomes, << >>)
  /\ apc' = "batch"
  /\ UNCHANGED << acall, repeat, train_accuracies, test_accuracies,
                  fake_accuracies, acc_result, acc_error >>
  /\ UNCHANGED << sweepVars, popVars >>

\* one batch: the predictions for the first image and the losses are kept
BatchStep ==
  /\ apc = "batch"
  /\ Len(test_predictions) < acc_num_batches
  /\ \E o \in BatchOutcomes :
       /\ acall.perfect => Perfect(o)
       /\ test_predictions' = Append(test_predictions, o.test)
       /\ test_d_losses' = Append(test_d_losses, << o.test_d_loss, 1 >>)
       /\ train_predictions' = Append(train_predictions, o.train)
       /\ train_d_losses' = Append(train_d_losses, << o.train_d_loss, 1 >>)
       /\ fake_predictions' = Append(fake_predictions, o.fake)
       /\ outcomes' =
            [outcomes EXCEPT ![Len(outcomes)] =
               Append(@, [test_batch |-> test_batch(Len(test_predictions))]
                           @@ o)]
  /\ UNCHANGED << acall, apc, repeat, train_accuracies, test_accuracies,
                  fake_accuracies, acc_result, acc_error >>
  /\ UNCHANGED << sweepVars, popVars >>

\* the end of a repeat: thresholds, accuracies, mean losses; the accuracies
\* and the mean losses are appended to the lists of results
RepeatEnd ==
  /\ apc = "batch"
  /\ Len(test_predictions) = acc_num_batches
  /\ IF Len(train_predictions) = 0
       THEN /\ acc_error' = "ZeroDivisionError"
            /\ apc' = "failed"
            /\ UNCHANGED << repeat, train_d_losses, test_d_losses,
                            train_accuracies, test_accuracies,
                            fake_accuracies >>
       ELSE LET train == [k \in 1..Len(train_predictions) |->
                            IsReal(train_predictions[k])]
                test == [k \in 1..Len(test_predictions) |->
                           IsReal(test_predictions[k])]
                fake == [k \in 1..Len(fake_predictions) |->
                           IsFake(fake_predictions[k])]
            IN  /\ train_accuracies' =
                     Append(train_accuracies, Frac(CountTrue(train), Len(train)))
                /\ test_accuracies' =
                     Append(test_accuracies, Frac(CountTrue(test), Len(test)))
                /\ fake_accuracies' =
                     Append(fake_accuracies, Frac(CountTrue(fake), Len(fake)))
                /\ train_d_losses' =
                     Append(train_d_losses, np_mean(train_d_losses))
                /\ test_d_losses' =
                     Append(test_d_losses, np_mean(test_d_losses))
                /\ repeat' = repeat + 1
                /\ apc' = "repeat"
                /\ UNCHANGED acc_error
  /\ UNCHANGED << acall, train_predictions, test_predictions,
                  fake_predictions, acc_result, outcomes >>
  /\ UNCHANGED << sweepVars, popVars >>

\* result_dict is filled with the np.mean of the five lists
AccReturn ==
  /\ apc = "repeat"
  /\ repeat = acall.num_repeat
  /\ acc_result' =
       [ train_accuracy |-> np_mean(train_accuracies),
         test_accuracy |-> np_mean(test_accuracies),
         fake_accuracy |-> np_mean(fake_accuracies),
         train_d_loss |-> np_mean(train_d_losses),
         test_d_loss |-> np_mean(test_d_losses) ]
  /\ apc' = "returned"
  /\ UNCHANGED << acall, repeat, train_predictions, test_predictions,
                  fake_predictions, train_d_losses, test_d_losses,
                  train_accuracies, test_accuracies, fake_accuracies,
                  acc_error, outcomes >>
  /\ UNCHANGED << sweepVars, popVars >>

InitAccuracy ==
  /\ SweepIdle
  /\ PopIdle
  /\ acall \in AccCalls
  /\ apc = "call"
  /\ repeat = 0
  /\ train_predictions = << >>
  /\ test_predictions = << >>
  /\ fake_predictions = << >>
  /\ train_d_losses = << >>
  /\ test_d_losses = << >>
  /\ train_accuracies = << >>
  /\ test_accuracies = << >>
  /\ fake_accuracies = << >>
  /\ acc_result = << >>
  /\ acc_error = ""
  /\ outcomes = << >>

NextAccuracy ==
  \/ AccStart
  \/ RepeatStart
  \/ BatchStep
  \/ RepeatEnd
  \/ AccReturn

SpecAccuracy == InitAccuracy /\ [][NextAccuracy]_vars


\* ------------------------------------------------- vocabulary of the claims
IsPrefix(a, b) == Len(a) <= Len(b) /\ SubSeq(b, 1, Len(a)) = a

\* a run of RunTaskEval has reached its loop, or has ended, and nothing was
\* done to the table or the schema since
InRun ==
  /\ run > 0
  /\ env = "none"
  /\ pc \in {"loop", "eval", "real_images", "session", "generate",
             "in_session", "close", "after_session", "row", "flush", "done",
             "failed", "crashed"}

\* RunCheckpointEval is executing
Evaluating ==
  pc \in {"eval", "real_images", "session", "generate", "in_session",
          "close", "after_session"}

\* table f has a matching header: its header record names exactly the
\* expected columns and the key test of RunTaskEval accepts every record
HeaderMatches(f) ==
  /\ f # << >>
  /\ Range(f[1]) = Range(expected_header)
  /\ ReadScores(f, expected_header).status = "ok"

\* the checkpoint_path column of table f
PathColumn(f) ==
  {RowGet(f[1], f[k], "checkpoint_path") : k \in 2..Len(f)}

\* the data records of sequence rows that start with path
RowsFor(path, rows) == {k \in 1..Len(rows) : rows[k][1] = path}

\* position of a path in all_checkpoint_paths
Index(path) ==
  CHOOSE j \in 1..Len(all_checkpoint_paths) : all_checkpoint_paths[j] = path

\* the paths of pathSeq that lie in the set keep, in order
RECURSIVE Select(_, _)
Select(pathSeq, keep) ==
  IF pathSeq = << >> THEN << >>
  ELSE (IF Head(pathSeq) \in keep THEN <<Head(pathSeq)>> ELSE << >>)
         \o Select(Tail(pathSeq), keep)

\* the records this run appended to table f (the run found startFile, or
\* wrote the header itself)
NewRows(f) ==
  LET base == IF wroteHeader THEN 1 ELSE Len(startFile)
  IN  SubSeq(f, base + 1, Len(f))

\* the first fields of a sequence of records
FirstFields(rows) == [k \in 1..Len(rows) |-> rows[k][1]]

\* the metric fields of a data record
MetricFields(row) == SubSeq(row, Len(IdColumns) + 1,
                            Len(IdColumns) + Len(task_headers))

\* the checkpoints of this run whose iteration of the loop is over
Completed == Select(evaluated, {all_checkpoint_paths[j] : j \in 1..(i - 1)})

\* how RunCheckpointEval ends for a path, read off the trial and the model
Outcome(path) ==
  IF options["gan_type"] \notin SUPPORTED_GANS \/ ~ trial.test_ok
    THEN "ValueError"
  ELSE IF model[path] = "nan" THEN "NanFoundError"
  ELSE IF ShouldRunAccuracyLossTrainVsTest(options) /\ ~ trial.train_ok
    THEN "ValueError"
  ELSE IF model[path] = "hookfail" THEN "Error"
  ELSE "ok"


\* ------------------------------------------------------------------ claims
\* C1 (resumability).  In a run that found a table whose header names the
\* expected columns, no path of the table's checkpoint_path column is
\* passed to RunCheckpointEval and none gets a further record.  When the run
\* before it went through its whole checkpoint list and nothing changed in
\* between, the run evaluates nothing and leaves the table as it found it.
C1_Resumability ==
  (InRun /\ HeaderMatches(startFile)) =>
    /\ \A path \in PathColumn(startFile) :
         /\ path \notin Range(evaluated)
         /\ RowsFor(path, Tail(file \o buffer)) = RowsFor(path, Tail(startFile))
    /\ since = "done" => (evaluated = << >> /\ file = startFile /\ buffer = << >>)

\* C1 witness: a second sweep over a table holding a record of every
\* checkpoint has ended; it skipped them all.
C1_Witness ==
  /\ pc = "done" /\ since = "done" /\ env = "none"
  /\ HeaderMatches(startFile)
  /\ PathColumn(startFile) = Range(all_checkpoint_paths)
  /\ i = Len(all_checkpoint_paths) + 1
  /\ evaluated = << >>
  /\ file = startFile


\* C2 (NaN handling).  Every checkpoint of this run whose iteration is over
\* has exactly one new record, in list order; the record of a checkpoint
\* whose generation met a NaN holds "31337.000" in every metric column;
\* NanFoundError never ends the sweep, and a sweep that reaches the end of
\* the list has evaluated every pending checkpoint.
C2_NanRows ==
  InRun =>
    LET new == NewRows(file \o buffer)
    IN  /\ FirstFields(new) =
             (IF Evaluating \/ pc = "row" \/ (pc = "failed" /\ evaluated # << >>)
                THEN SubSeq(evaluated, 1, Len(evaluated) - 1)
                ELSE IF pc = "crashed" THEN FirstFields(new)
                ELSE evaluated)
        /\ \A k \in 1..Len(new) :
             Outcome(new[k][1]) = "NanFoundError" =>
               \A m \in 1..Len(task_headers) :
                 MetricFields(new[k])[m] = "31337.000"
        /\ pc = "failed" => raised # "NanFoundError"
        /\ pc = "done" =>
             evaluated = Select(all_checkpoint_paths,
                                Range(all_checkpoint_paths)
                                  \ finished_checkpoints)

\* C2 witness: the first checkpoint generated a NaN, the sweep went on, the
\* second checkpoint was evaluated and both have their record.
C2_Witness ==
  /\ pc = "done" /\ env = "none"
  /\ model[all_checkpoint_paths[1]] = "nan"
  /\ model[all_checkpoint_paths[2]] = "ok"
  /\ SubSeq(evaluated, 1, 2) = SubSeq(all_checkpoint_paths, 1, 2)
  /\ Len(file) > 2
  /\ file[2][1] = all_checkpoint_paths[1]
  /\ file[2][6] = "31337.000"
  /\ file[3][1] = all_checkpoint_paths[2]
  /\ file[3][6] # "31337.000"

\* C3 (schema drift), as claimed: a run that finds a table whose header
\* names other columns than expected reaches its loop with the table
\* rewritten to the expected header alone and nothing finished, and at its
\* end has evaluated every checkpoint.
C3_SchemaDrift ==
  (run > 0 /\ env = "none" /\ startFile # << >>
     /\ Range(startFile[1]) # Range(expected_header)) =>
    /\ (pc = "loop" /\ i = 1) =>
         (file = << expected_header >> /\ finished_checkpoints = {})
    /\ pc = "done" => evaluated = all_checkpoint_paths

\* C4 (idempotence under crash), as claimed: the sweep that follows the
\* truncation of a completed sweep's table after its k-th data row keeps
\* the records it found, evaluates exactly the checkpoints that have none
\* among them, and ends with the table the truncation started from.
C4_TruncatedRerun ==
  (pc = "done" /\ since = "truncated" /\ env = "none") =>
    /\ IsPrefix(startFile, file)
    /\ evaluated =
         Select(all_checkpoint_paths,
                Range(all_checkpoint_paths)
                  \ {startFile[k][1] : k \in 2..Len(startFile)})
    /\ file = orig

\* C5 (durability).  At every point of a run, and after a crash, the durable
\* table holds the record of every checkpoint whose iteration is over; the
\* write buffer is empty except between writerow and flush, where it holds
\* the one record of the checkpoint in hand.
C5_Durability ==
  InRun =>
    /\ FirstFields(NewRows(file)) = Completed
    /\ pc \notin {"flush", "crashed"} => buffer = << >>
    /\ pc = "flush" =>
         (Len(buffer) = 1 /\ buffer[1][1] = checkpoint_path
            /\ checkpoint_path \notin Range(Completed))

\* C5 witness: the process died during the second checkpoint; the record of
\* the first one is in the table.
C5_Witness ==
  /\ pc = "crashed" /\ env = "none"
  /\ i = 2
  /\ evaluated = SubSeq(all_checkpoint_paths, 1, 2)
  /\ FirstFields(NewRows(file)) = << all_checkpoint_paths[1] >>

\* C6 (append-only).  In a run that found a table with a matching header the
\* table it found stays a prefix of the table; and the only steps of the
\* program after which the old table is not a prefix of the new one are the
\* rewrite after a key mismatch at the start of a run.
C6_AppendOnly ==
  /\ []((run > 0 /\ env = "none" /\ HeaderMatches(startFile))
          => IsPrefix(startFile, file))
  /\ [][(~ IsPrefix(file, file')) =>
          ((env = "none" /\ env' = "truncated")
             \/ (pc = "read" /\ pc' = "rewrite_header"
                   /\ ReadScores(file, expected_header).status # "ok"))]_vars

\* C6 witness: a run found a matching table with a record and has appended
\* another one behind it.
C6_Witness ==
  /\ pc = "done" /\ env = "none"
  /\ HeaderMatches(startFile)
  /\ Len(startFile) > 1
  /\ Len(file) > Len(startFile)
  /\ IsPrefix(startFile, file)

C8_ScopedSession ==
  /\ open_sessions \in {0, 1}
  /\ open_sessions = 1 <=> pc \in {"generate", "in_session", "close"}

\* C8 witness: the first checkpoint met a NaN and the session of the second
\* checkpoint is the only one open.
C8_Witness ==
  /\ pc = "generate" /\ i = 2
  /\ evaluated = SubSeq(all_checkpoint_paths, 1, 2)
  /\ Outcome(all_checkpoint_paths[1]) = "NanFoundError"
  /\ open_sessions = 1

RECURSIVE OffsetFrom(_)
\* number of header columns before the metric names of task j, counted
OffsetFrom(j) ==
  IF j = 1 THEN Len(IdColumns)
  ELSE OffsetFrom(j - 1) + Cardinality(MetricsList(tasks_to_run[j - 1]))

\* the same for every task, and for the end of the metric columns
Offsets == [j \in 1..(Len(tasks_to_run) + 1) |-> OffsetFrom(j)]

\* number of header columns before the metric names of task j
Offset(j) == Offsets[j]

\* s is strictly ascending in the order of Python strings
Ascending(s) == \A k \in 1..(Len(s) - 1) : StrLess(s[k], s[k + 1])

\* C9 (header layout), as claimed: the header a run writes is the five
\* identifier columns, the metric names of all tasks in one sorted order,
\* the hyperparameter names in sorted order.
C9_GloballySorted ==
  (wroteHeader /\ env = "none") =>
    LET h == file[1]
        n == Offset(Len(tasks_to_run) + 1)
    IN  /\ SubSeq(h, 1, Len(IdColumns)) = IdColumns
        /\ Ascending(SubSeq(h, Len(IdColumns) + 1, n))
        /\ Ascending(SubSeq(h, n + 1, Len(h)))

\* C9, amended.  The header a run writes is the five identifier columns,
\* then for each task in tasks_to_run order the metric names of that task,
\* sorted among themselves, then the hyperparameter names in sorted order.
C9_HeaderLayout ==
  (wroteHeader /\ env = "none") =>
    LET h == file[1]
        n == Offset(Len(tasks_to_run) + 1)
    IN  /\ SubSeq(h, 1, Len(IdColumns)) =
             <<"checkpoint_path", "model", "dataset", "tf_seed", "sample_id">>
        /\ \A j \in 1..Len(tasks_to_run) :
             LET seg == SubSeq(h, Offset(j) + 1, Offset(j + 1))
             IN  /\ Range(seg) = MetricsList(tasks_to_run[j])
                 /\ Ascending(seg)
        /\ Range(SubSeq(h, n + 1, Len(h))) = {"architecture"} \cup paramKeys
        /\ Ascending(SubSeq(h, n + 1, Len(h)))
        /\ Len(h) = n + 1 + Cardinality(paramKeys)

\* C9 witness: a run has written a header whose metric names start with
\* inception_score, fid_score (task order, not sorted order) and whose
\* hyperparameter columns are architecture, beta1, lambda.
C9_Witness ==
  /\ wroteHeader /\ env = "none" /\ pc = "loop"
  /\ paramKeys = {"beta1", "lambda"}
  /\ SubSeq(file[1], 6, 10) =
       <<"inception_score", "fid_score", "ms_ssim", "fake_accuracy",
         "test_accuracy">>
  /\ SubSeq(file[1], Len(file[1]) - 2, Len(file[1])) =
       <<"architecture", "beta1", "lambda">>

\* C10 (closed metric key set).  Every key a RunInSession or
\* RunAfterSession hook adds to result_dict is in the MetricsList of the
\* task whose hook ran, and every key of result_dict is a metric column of
\* the header.
C10_ClosedKeys ==
  /\ []((DOMAIN result_dict) \subseteq Range(task_headers))
  /\ [][(pc \in {"in_session", "after_session"}) =>
          (((DOMAIN result_dict') \ (DOMAIN result_dict))
             \subseteq MetricsList(tasks_to_run[t]))]_vars

\* C10 witness: with every task enabled the merged result holds all the
\* keys the tasks declare, and a record is about to be written from it.
C10_Witness ==
  /\ pc = "row"
  /\ DOMAIN result_dict =
       UNION {MetricsList(tasks_to_run[j]) : j \in 1..Len(tasks_to_run)}
  /\ Cardinality(DOMAIN result_dict) = Len(task_headers)

\* C11 (population size).  num_test_examples is eval_test_samples rounded
\* down to a multiple of INCEPTION_BATCH; the generation loop leaves
\* ceil(num_test_examples / batch_size) whole batches in samples; and when
\* the RunAfterSession hooks run, fake_images and real_images both hold
\* num_test_examples images.
C11_PopulationSize ==
  (call.caller = "RunCheckpointEval" /\ ppc \notin {"call", "idle"}) =>
    /\ \E q \in 0..call.eval_test_samples :
         /\ num_test_examples = q * INCEPTION_BATCH
         /\ num_test_examples <= call.eval_test_samples
         /\ call.eval_test_samples < num_test_examples + INCEPTION_BATCH
    /\ \A b \in 1..Len(samples) : Len(samples[b]) = call.batch_size
    /\ ppc \in {"postprocess", "after_session"} =>
         /\ Len(samples) * call.batch_size >= num_test_examples
         /\ (Len(samples) > 0 =>
               (Len(samples) - 1) * call.batch_size < num_test_examples)
    /\ ppc = "after_session" =>
         /\ Len(fake_images) = num_test_examples
         /\ Len(real_images) = num_test_examples

\* C11 witness: 101 requested samples, batches of 64: 100 test examples,
\* two batches (128 images) cut to 100.
C11_Witness ==
  /\ ppc = "after_session"
  /\ call.eval_test_samples = 2 * INCEPTION_BATCH + 1
  /\ call.batch_size = 64
  /\ num_test_examples = 2 * INCEPTION_BATCH
  /\ Len(samples) = 2
  /\ Len(Flatten(samples)) > Len(fake_images)
  /\ Len(fake_images) = 2 * INCEPTION_BATCH

\* the value of one repeat, from what the discriminator returned in it
RepeatValue(key, os) ==
  CASE key = "train_accuracy" ->
         Frac(Cardinality({k \in 1..Len(os) : IsReal(os[k].train)}), Len(os))
    [] key = "test_accuracy" ->
         Frac(Cardinality({k \in 1..Len(os) : IsReal(os[k].test)}), Len(os))
    [] key = "fake_accuracy" ->
         Frac(Cardinality({k \in 1..Len(os) : IsFake(os[k].fake)}), Len(os))
    [] key = "train_d_loss" ->
         np_mean([k \in 1..Len(os) |-> << os[k].train_d_loss, 1 >>])
    [] key = "test_d_loss" ->
         np_mean([k \in 1..Len(os) |-> << os[k].test_d_loss, 1 >>])

\* C12 (accuracy/loss aggregation), as claimed: each of the five returned
\* values is the mean over all repeats of the value of that repeat.
C12_MeanOverRepeats ==
  (apc = "returned" /\ acall.num_repeat >= 1) =>
    \A key \in DOMAIN acc_result :
      acc_result[key] =
        np_mean([r \in 1..Len(outcomes) |-> RepeatValue(key, outcomes[r])])

\* the documented defaults of the hyperparameter columns explored
DocumentedDefault ==
  [ architecture |-> "unknown", beta1 |-> "-1.0", lambda |-> "-1.0" ]

Triggered(task) ==
  CASE task = "KIDScoreTask" -> Get(options, "compute_kid_score", FALSE)
    [] task = "MultiscaleSSIMTask" ->
         options["dataset"] \in {"celeba", "celebahq128"}
    [] task = "ComputeAccuracyTask" -> options["gan_type"] = GAN_WITH_PENALTY
    [] task = "FractalDimensionTask" ->
         Get(options, "compute_fractal_dimension", FALSE)
    [] task = "GILBOTask" -> Get(options, "compute_gilbo", FALSE)
    [] task = "GeneratorConditionNumberTask" ->
         Get(options, "compute_generator_condition_number", FALSE)
    [] OTHER -> TRUE

\* C14 (conditional tasks).  A task whose trigger condition is false never
\* adds a key to the merged result, and in the row of a checkpoint
\* evaluated without NaN each of its metric columns holds "-1.000".
C14_ConditionalTasks ==
  [][ \A j \in 1..Len(tasks_to_run) :
        ~ Triggered(tasks_to_run[j]) =>
          /\ MetricsList(tasks_to_run[j]) \cap DOMAIN result_dict' = {}
          /\ (pc = "row" /\ pc' = "flush" /\ model[checkpoint_path] # "nan") =>
               \A k \in 1..Cardinality(MetricsList(tasks_to_run[j])) :
                 buffer'[Len(buffer')][Offset(j) + k]
                   = Format3(DEFAULT_METRIC * Milli) ]_vars

\* C14 witness: a row written without NaN for a trial that triggers the
\* fractal dimension and condition number tasks and, by a false flag, not
\* the KID task.
C14_Witness ==
  /\ pc = "flush"
  /\ model[checkpoint_path] = "ok"
  /\ options = MixedOptions
  /\ buffer # << >>
  /\ LET row == buffer[Len(buffer)]
     IN  /\ row[1] = checkpoint_path
         /\ \E j \in 1..Len(tasks_to_run) :
              /\ tasks_to_run[j] = "KIDScoreTask"
              /\ row[Offset(j) + 1] = "-1.000"
         /\ \E j \in 1..Len(tasks_to_run) :
              /\ tasks_to_run[j] = "FractalDimensionTask"
              /\ row[Offset(j) + 1] # "-1.000"

\* C15 (unsupported model type).  For a gan_type outside SUPPORTED_GANS the
\* evaluation of a checkpoint goes from its start straight to the failure
\* of the sweep with ValueError: the test split is never read, no session
\* is opened, no hook adds a result, and the table gets no data row.
C15_UnsupportedModel ==
  [][ options["gan_type"] \notin SUPPORTED_GANS =>
        /\ pc' \notin {"real_images", "session", "generate", "in_session",
                       "close", "after_session", "row", "flush"}
        /\ open_sessions' = 0
        /\ result_dict' = EmptyDict
        /\ (pc = "eval" /\ pc' \notin {"eval", "crashed"}) =>
             /\ pc' = "failed"
             /\ raised' = "ValueError"
             /\ evaluated' = << all_checkpoint_paths[1] >>
        /\ \A k \in 1..Len(file' \o buffer') :
             (file' \o buffer')[k][1] \notin Range(all_checkpoint_paths) ]_vars

\* C15 witness: the sweep of a trial with an unsupported gan_type has
\* failed at its first checkpoint.
C15_Witness ==
  /\ options["gan_type"] \notin SUPPORTED_GANS
  /\ pc = "failed"
  /\ raised = "ValueError"
  /\ evaluated = << all_checkpoint_paths[1] >>
  /\ file = << expected_header >>

\* the metric fields of the row such an evaluation of path yields
ReferenceFields(path) ==
  LET ran == UNION { RunInSession(tasks_to_run[j], options)
                       \cup RunAfterSession(tasks_to_run[j], options) :
                     j \in 1..Len(tasks_to_run) }
  IN  [m \in 1..Len(task_headers) |->
         IF model[path] = "nan" THEN Format3(NAN_DETECTED * Milli)
         ELSE IF task_headers[m] \in ran
           THEN Format3(MetricValue(path, ReferenceLatents(NumBatches)))
         ELSE Format3(DEFAULT_METRIC * Milli)]

LeastScore(f, metric_name) ==
  LET m == CHOOSE m \in 1..Len(task_headers) : task_headers[m] = metric_name
      vals == {ParseField(f[k], Len(IdColumns) + m)[2] : k \in 2..Len(f)}
  IN  CHOOSE v \in vals : \A w \in vals : v <= w

\* C17 (best-score selection), as claimed: a call of SaveFinalEvaluation
\* Score on the table of a sweep that returned writes the least value of
\* the column metric_name over the data rows.
C17_BestScore ==
  saved # NoSave =>
    /\ saved.error = ""
    /\ saved.output = StrFloat(<< "num", LeastScore(file, saved.metric_name) >>)

\* the three accuracies of the returned result
Accuracies ==
  << acc_result.train_accuracy, acc_result.test_accuracy,
     acc_result.fake_accuracy >>

RawFake == SubSeq(Flatten(samples), 1, num_test_examples)

\* C19 (channel reconciliation).  When the RunAfterSession hooks run, a
\* pair of one-channel populations has become a pair of three-channel
\* populations whose three channels all hold the original single channel
\* (on the 0..255 scale), and a pair of three-channel populations has kept
\* its shape and its values.
C19_ChannelReconciliation ==
  (call.caller = "RunCheckpointEval" /\ ppc = "after_session") =>
    /\ Len(fake_images) = Len(RawFake)
    /\ Len(real_images) = Len(data_x)
    /\ \A j \in 1..Len(fake_images) :
         /\ Len(fake_images[j]) = 3
         /\ IF call.fake_channels = 1
              THEN \A c \in 1..3 : fake_images[j][c] = PIXEL_SCALE * RawFake[j][1]
              ELSE \A c \in 1..3 : fake_images[j][c] = PIXEL_SCALE * RawFake[j][c]
    /\ \A j \in 1..Len(real_images) :
         /\ Len(real_images[j]) = 3
         /\ IF call.real_channels = 1
              THEN \A c \in 1..3 : real_images[j][c] = PIXEL_SCALE * data_x[j][1]
              ELSE \A c \in 1..3 : real_images[j][c] = PIXEL_SCALE * data_x[j][c]

\* C19 witness: one-channel populations of 50 images have reached the
\* hooks with three channels, some pixel being non-zero.
C19_Witness ==
  /\ call.caller = "RunCheckpointEval"
  /\ ppc = "after_session"
  /\ call.real_channels = 1
  /\ call.fake_channels = 1
  /\ Len(samples[1][1]) = 1
  /\ Len(fake_images) = INCEPTION_BATCH
  /\ Len(fake_images[1]) = 3
  /\ Len(real_images[1]) = 3
  /\ \E j \in 1..Len(fake_images) : fake_images[j][3] = PIXEL_SCALE

\* the first n images of the split followed, in dataset order, on the
\* 0..255 scale
FirstImages(n) ==
  [j \in 1..n |->
     [c \in 1..call.real_channels |->
        PIXEL_SCALE * DatasetImage(j, call.real_channels)[c]]]

\* C20 (real population shortfall).  When GetRealImages ends: a split of
\* fewer than num_examples images makes it raise if failure_on_insufficient_
\* examples is true and return all the images of the split otherwise; a
\* split of at least num_examples images makes it return the first
\* num_examples images in dataset order.
C20_Shortfall ==
  [][ (ppc = "read" /\ ppc' # "read") =>
        IF call.split_size < num_examples
          THEN IF failure_on_insufficient_examples
                 THEN /\ ppc' = "failed"
                      /\ pop_error' = "ValueError"
                      /\ real_images' = << >>
                 ELSE /\ ppc' # "failed"
                      /\ pop_error' = ""
                      /\ real_images' = FirstImages(call.split_size)
          ELSE /\ ppc' # "failed"
               /\ pop_error' = ""
               /\ real_images' = FirstImages(num_examples) ]_vars

\* C20 witness: the train split of 49 images, 51 asked for, not required:
\* the 49 images are returned.
C20_Witness ==
  /\ call.caller = "ComputeAccuracyLoss"
  /\ ppc = "returned"
  /\ call.split_size = INCEPTION_BATCH - 1
  /\ num_examples = INCEPTION_BATCH + 1
  /\ ~ failure_on_insufficient_examples
  /\ Len(real_images) = INCEPTION_BATCH - 1
  /\ real_images = FirstImages(INCEPTION_BATCH - 1)

\* C21 (fail-fast on corrupted generation).  The evaluation of a checkpoint
\* whose generation yields a NaN never reaches a RunInSession or
\* RunAfterSession hook and never adds a result.  The only way out of the
\* generation loop other than its normal end is NanFoundError, raised at the
\* batch that holds the NaN: that batch is the last one drawn, the session
\* is closed, RunCheckpointEval is not called again for the checkpoint, and
\* from the handler the sweep goes on to write the row, without generating
\* or evaluating anything more for that checkpoint.
C21_FailFast ==
  /\ []((Evaluating /\ model[checkpoint_path] = "nan") =>
          /\ pc \notin {"in_session", "close", "after_session"}
          /\ result_dict = EmptyDict)
  /\ [][ (pc = "generate" /\ pc' \notin {"generate", "in_session", "crashed"}) =>
           /\ pc' = "row"
           /\ model[checkpoint_path] = "nan"
           /\ default_value' = NAN_DETECTED * Milli
           /\ result_dict' = EmptyDict
           /\ open_sessions' = 0
           /\ Len(latents') = batch + 1
           /\ evaluated' = evaluated
           /\ i' = i ]_vars
  /\ [][ (pc = "row" /\ default_value = NAN_DETECTED * Milli) =>
           /\ pc' \in {"row", "flush", "crashed"}
           /\ evaluated' = evaluated
           /\ Len(latents') <= Len(latents)
           /\ result_dict' = EmptyDict ]_vars

\* C21 witness: the first of the batches of a checkpoint held a NaN; the
\* error has reached the handler of RunTaskEval, one batch was drawn, no
\* hook has run and the session is closed.
C21_Witness ==
  /\ pc = "row"
  /\ model[checkpoint_path] = "nan"
  /\ default_value = NAN_DETECTED * Milli
  /\ NumBatches > 1
  /\ Len(latents) = 1
  /\ batch = 0
  /\ result_dict = EmptyDict
  /\ open_sessions = 0
  /\ Cardinality({k \in 1..Len(evaluated) : evaluated[k] = checkpoint_path}) = 1

\* the hook calls of an evaluation that runs to its end: RunInSession of
\* every task in tasks_to_run order, the session open and every batch
\* generated, then RunAfterSession of every task in the same order, the
\* session closed
PhasedCalls ==
  [k \in 1..Len(tasks_to_run) |->
     [ hook |-> "RunInSession", task |-> tasks_to_run[k],
       session_open |-> TRUE, batches |-> NumBatches ]]
  \o [k \in 1..Len(tasks_to_run) |->
        [ hook |-> "RunAfterSession", task |-> tasks_to_run[k],
          session_open |-> FALSE, batches |-> NumBatches ]]

\* C22 (phase ordering within one checkpoint).  At every point the hook
\* calls made for the checkpoint in hand are an initial part of: RunInSession
\* of every task in tasks_to_run order, each made with the session open and
\* after the last generation batch, then RunAfterSession of every task in
\* tasks_to_run order, each made with the session closed.  The session is
\* closed between the two phases, and an evaluation that returns has made
\* all the calls.
C22_PhaseOrdering ==
  /\ IsPrefix(hooks, PhasedCalls)
  /\ pc \in {"session", "generate"} => hooks = << >>
  /\ pc = "in_session" => (open_sessions = 1 /\ Len(hooks) < Len(tasks_to_run))
  /\ pc = "close" => (open_sessions = 1 /\ Len(hooks) = Len(tasks_to_run))
  /\ pc = "after_session" =>
       /\ open_sessions = 0
       /\ Len(hooks) >= Len(tasks_to_run)
       /\ Len(hooks) < 2 * Len(tasks_to_run)
  /\ (pc = "row" /\ default_value # NAN_DETECTED * Milli) => hooks = PhasedCalls

\* C22 witness: an evaluation has returned after the sixteen hook calls,
\* the eighth made in the open session and the ninth after its close.
C22_Witness ==
  /\ pc = "row"
  /\ default_value = DEFAULT_METRIC * Milli
  /\ Len(hooks) = 2 * Len(tasks_to_run)
  /\ hooks[Len(tasks_to_run)] =
       [ hook |-> "RunInSession", task |-> "GILBOTask",
         session_open |-> TRUE, batches |-> NumBatches ]
  /\ hooks[Len(tasks_to_run) + 1] =
       [ hook |-> "RunAfterSession", task |-> "InceptionScoreTask",
         session_open |-> FALSE, batches |-> NumBatches ]
  /\ open_sessions = 0

\* C23 (no retry of a failed checkpoint), as claimed: in one run no path is
\* passed to RunCheckpointEval twice, and a path whose NaN-sentinel row was
\* written by an earlier run, the expected header being the same ever since
\* and the row still in the table when the run starts, is not evaluated by
\* the run and gets no further row.
C23_NoRetry ==
  InRun =>
    /\ \A k, l \in 1..Len(evaluated) :
         k # l => evaluated[k] # evaluated[l]
    /\ \A path \in recorded :
         /\ path \notin Range(evaluated)
         /\ RowsFor(path, NewRows(file \o buffer)) = {}

\* the test images fed to the discriminator so far, as positions in
\* test_images (counted from 0)
FedImages ==
  UNION { UNION { Range(outcomes[r][b].test_batch) :
                    b \in 1..Len(outcomes[r]) } :
            r \in 1..Len(outcomes) }

\* C24 (partial last batch in the accuracy task).  For a test set of N
\* images and batch size B, batch b of every repeat is fed the B test images
\* at positions (b-1)*B .. b*B-1, no fewer and no more; a repeat that is over
\* has processed floor(N/B) batches; and none of the N mod B last test
\* images is ever fed.
C24_PartialLastBatch ==
  LET N == acall.test_n
      B == acall.batch_size
  IN  /\ \A r \in 1..Len(outcomes) :
           /\ Len(outcomes[r]) <= N \div B
           /\ (r <= repeat \/ apc # "batch") => Len(outcomes[r]) = N \div B
           /\ \A b \in 1..Len(outcomes[r]) :
                /\ Len(outcomes[r][b].test_batch) = B
                /\ outcomes[r][b].test_batch =
                     [k \in 1..B |-> (b - 1) * B + k - 1]
      /\ FedImages \cap ((N - (N % B))..(N - 1)) = {}
      /\ apc = "returned" =>
           /\ Len(outcomes) = acall.num_repeat
           /\ (acall.num_repeat > 0 => FedImages = 0..((N - (N % B)) - 1))

\* C24 witness: two repeats over a test set of five images in batches of
\* two have returned; each repeat fed two batches, the second one the
\* images 2 and 3, and image 4 was never fed.
C24_Witness ==
  /\ apc = "returned"
  /\ acall.test_n = 5
  /\ acall.batch_size = 2
  /\ acall.num_repeat = 2
  /\ Len(outcomes) = 2
  /\ Len(outcomes[1]) = 2
  /\ Len(outcomes[2]) = 2
  /\ outcomes[2][2].test_batch = << 2, 3 >>
  /\ 4 \notin FedImages

\* the value the row of the checkpoint in hand is to hold in the column of
\* a given name
ColumnValue(name) ==
  CASE name = "checkpoint_path" -> checkpoint_path
    [] name = "model" -> options["gan_type"]
    [] name = "dataset" -> options["dataset"]
    [] name = "tf_seed" -> Get(options, "tf_seed", "-1")
    [] name = "sample_id" -> Get(options, "sample_id", "-1")
    [] name \in Range(task_headers) ->
         Format3(Get(result_dict, name, default_value))
    [] OTHER ->
         IF name \in DOMAIN options THEN options[name]
         ELSE DocumentedDefault[name]

\* C25 (row/header alignment).  The row a run hands to the writer, for a
\* checkpoint evaluated to its end and for a NaN checkpoint alike, has as
\* many fields as the header the run computed, and its i-th field is the
\* value of the column the header names at i; the header has the five
\* identifier columns, one column per declared metric and one per
\* hyperparameter.  In a run that wrote the header, the header of the table
\* is that header and every data row of the table has its length.
C25_RowHeaderAlignment ==
  /\ [][ (pc = "row" /\ pc' = "flush") =>
           LET row == buffer'[Len(buffer')]
           IN  /\ Len(row) = Len(expected_header)
               /\ \A j \in 1..Len(expected_header) :
                    row[j] = ColumnValue(expected_header[j])
               /\ Len(row) =
                    5 + Cardinality(UNION {MetricsList(tasks_to_run[j]) :
                                             j \in 1..Len(tasks_to_run)})
                      + Cardinality({"architecture"} \cup paramKeys) ]_vars
  /\ []((InRun /\ wroteHeader) =>
          /\ file[1] = expected_header
          /\ \A k \in 2..Len(file \o buffer) :
               Len((file \o buffer)[k]) = Len(file[1]))

\* C25 witness: a run that wrote the header has flushed the row of a first
\* checkpoint evaluated to its end, with computed and default metric
\* fields, and has handed the row of a second checkpoint, a NaN one, to the
\* writer; both have the length of the header.
C25_Witness ==
  /\ pc = "flush"
  /\ env = "none"
  /\ wroteHeader
  /\ i = 2
  /\ model[all_checkpoint_paths[1]] = "ok"
  /\ model[all_checkpoint_paths[2]] = "nan"
  /\ options = MixedOptions
  /\ Len(file) = 2
  /\ Len(buffer) = 1
  /\ Len(file[2]) = Len(file[1])
  /\ Len(buffer[1]) = Len(file[1])
  /\ file[2][ColumnOf(file[1], "inception_score")] # "-1.000"
  /\ file[2][ColumnOf(file[1], "kid_score")] = "-1.000"
  /\ buffer[1][ColumnOf(file[1], "kid_score")] = "31337.000"

\* C26 (one row per checkpoint), as claimed: whatever runs, crashes and
\* rewrites came before, no checkpoint path is the first field of more than
\* one record of the persisted table.
C26_OneRowPerCheckpoint ==
  \A path \in Range(all_checkpoint_paths) :
    Cardinality(RowsFor(path, file)) <= 1

====
